---- MODULE Spec2Model ----
(***************************************************************************)
(* Block synchronisation and document-tree consistency engine of pagelet.  *)
(*                                                                         *)
(* The Page and Block collections are the only shared state.  A request    *)
(* arrives (variable req), its route handler runs to completion as one     *)
(* action and leaves its HTTP response in resp.  Handlers are translated   *)
(* from the route files; the request generators (Request...) are the       *)
(* environment and carry all the bounds.                                   *)
(***************************************************************************)
EXTENDS Integers, Sequences, FiniteSets, TLC

VARIABLES
    pages,        \* Page collection: _id -> [userId, parentPageId, isPublic, title]
    blocks,       \* Block collection: _id -> [pageId, type, content, order]
    nextPageId,   \* next ObjectId handed out for a Page (ids are never reused)
    nextBlockId,  \* next ObjectId handed out for a Block
    req,          \* the request being served, NoReq when idle
    resp,         \* the response of the last handler
    heap,         \* the mark objects of the text editor: reference -> [type, start, end]
    localMarks,   \* the editor's localMarks: a list of references into heap
    argMarks,     \* the list the editor passed to the last Mark Engine call
    localText,    \* the editor's localText
    hook,         \* useBlocks state: [blocks, isDirty, hasMore, nextCursor, error]
    awaiting      \* the await the hook's running call is suspended at, with its closure

vars == <<pages, blocks, nextPageId, nextBlockId, req, resp,
          heap, localMarks, argMarks, localText, hook, awaiting>>
store == <<pages, blocks>>

\* The state of the browser tab
browser == <<heap, localMarks, argMarks, localText, hook, awaiting>>

\* No call of the hook is running
NotAwaiting == [at |-> "idle"]

\* useState([]), useState(false), useState(false), useState(null) and, for
\* error, useState(null)
HookIdle ==
    /\ hook = [blocks |-> <<>>, isDirty |-> FALSE, hasMore |-> FALSE,
               nextCursor |-> <<>>, error |-> FALSE]
    /\ awaiting = NotAwaiting

\* No editor is open
BrowserIdle ==
    /\ heap = <<>>
    /\ localMarks = <<>>
    /\ argMarks = <<>>
    /\ localText = <<>>
    /\ HookIdle

----------------------------------------------------------------------------
(* Bounds of the environment                                               *)

MaxSave == 2        \* length of a snapshot sent to the save endpoint
MaxLimit == 2       \* largest numeric limit, cursor or explicit order a client sends

Users == {"u1", "u2"}
Texts == {"a", "b"}

----------------------------------------------------------------------------
(* Values                                                                  *)

NoPage == 0          \* null parentPageId
NoId == 0            \* a block sent without a (valid) _id
NullParam == "null"  \* an absent query parameter (searchParams.get -> null)

\* String forms of the small numbers a client sends as query parameters.
NumStr == <<"0", "1", "2", "3", "4", "5", "6", "7", "8", "9", "10", "11", "12",
            "13", "14", "15", "16", "17", "18", "19", "20", "21", "22", "23", "24">>

\* parseInt / Number on a query parameter; NaN is returned as -1.
parseNum(s) ==
    IF \E i \in 1..Len(NumStr) : NumStr[i] = s
    THEN (CHOOSE i \in 1..Len(NumStr) : NumStr[i] = s) - 1
    ELSE -1

\* A reference to a page held in block content.  createPageBlock stores the
\* ObjectId itself (form "oid"); a save stores what the JSON body carried,
\* a string (form "str").
Ref(form, id) == [form |-> form, id |-> id]

TextContent(t) == [text |-> t]
PageContent(ref, title) == [pageId |-> ref, title |-> title]

\* b.type === 'page' && b.content?.pageId
IsPageRef(b) == b.type = "page" /\ "pageId" \in DOMAIN b.content

\* b.content.pageId.toString(): both forms print the same hex string, which
\* is what the page's _id prints.
RefTarget(b) == b.content.pageId.id

PageIdsOf(u) == {p \in DOMAIN pages : pages[p].userId = u}

\* Page.findOne({ _id: pageId, userId: user._id })
OwnsPage(u, p) == p \in DOMAIN pages /\ pages[p].userId = u

BlocksOf(bs, p) == {id \in DOMAIN bs : bs[id].pageId = p}

\* Restriction and update of a collection
Without(f, ids) == [x \in DOMAIN f \ ids |-> f[x]]
With(f, id, doc) == [x \in DOMAIN f \cup {id} |-> IF x = id THEN doc ELSE f[x]]

\* All sequences without repetition over the ids S
RECURSIVE Perms(_)
Perms(S) ==
    IF S = {} THEN {<<>>}
    ELSE UNION {{<<x>> \o t : t \in Perms(S \ {x})} : x \in S}

\* .sort({ order: 1 }): every listing of the ids S by non-decreasing order.
\* The store does not say which of two documents with the same order comes
\* first, so each such listing is a possible answer: documents of one order
\* come in any sequence, documents of lower orders before those of higher.
RECURSIVE SortedAsc(_, _)
SortedAsc(bs, S) ==
    LET orders == {bs[x].order : x \in S}
    IN  IF Cardinality(orders) <= 1 THEN Perms(S)
        ELSE LET mid == CHOOSE o \in orders :
                            Cardinality({l \in orders : l < o}) = Cardinality(orders) \div 2
                 lower == SortedAsc(bs, {x \in S : bs[x].order < mid})
                 upper == SortedAsc(bs, {x \in S : bs[x].order >= mid})
             IN  {lo \o up : lo \in lower, up \in upper}

Max(S) == CHOOSE x \in S : \A y \in S : y <= x
Min2(a, b) == IF a < b THEN a ELSE b

\* Block.getNextOrder: order of the last block plus one, 0 for an empty page
getNextOrder(bs, p) ==
    IF BlocksOf(bs, p) = {} THEN 0
    ELSE Max({bs[id].order : id \in BlocksOf(bs, p)}) + 1

\* A block document as a response carries it
Doc(bs, id) == [id |-> id, pageId |-> bs[id].pageId, type |-> bs[id].type,
                content |-> bs[id].content, order |-> bs[id].order]

Resp(op, status) == [op |-> op, status |-> status]
NoReq == [op |-> "none"]
NoResp == [op |-> "none", status |-> 0]

----------------------------------------------------------------------------
(* Synchronization Service: PUT /api/pages/[pageId]/blocks                 *)

\* SyncOp keeping the order the client sent instead of the array index
SyncOpSentOrder(pageId, B, fresh, i) ==
    LET blockData == [pageId |-> pageId, type |-> B[i].type,
                      content |-> B[i].content, order |-> B[i].order]
    IN  IF B[i].id # NoId
        THEN [kind |-> "updateOne", id |-> B[i].id, doc |-> blockData]
        ELSE [kind |-> "insertOne", id |-> fresh[i], doc |-> blockData]

\* The bulk operations built by blocks.forEach: item i of the snapshot
\* (array index i - 1) becomes an upsert on its own _id when that id is a
\* valid ObjectId, and an insert under a newly generated ObjectId otherwise.
\* fresh[i] is the ObjectId generated for item i.  order is the array index;
\* the order the client sent is not read.
SyncOp(pageId, B, fresh, i) ==
    LET blockData == [pageId |-> pageId, type |-> B[i].type,
                      content |-> B[i].content, order |-> i - 1]
    IN  IF B[i].id # NoId
        THEN [kind |-> "updateOne", id |-> B[i].id, doc |-> blockData]
        ELSE [kind |-> "insertOne", id |-> fresh[i], doc |-> blockData]

\* ObjectIds generated while walking the snapshot, in array order
FreshIds(B, next) ==
    [i \in 1..Len(B) |->
        next + Cardinality({j \in 1..(i - 1) : B[j].id = NoId})]

\* incomingBlockIds without the ids generated for the new blocks
IncomingIdsSentOnly(B, fresh) ==
    {B[i].id : i \in {j \in 1..Len(B) : B[j].id # NoId}}

\* incomingBlockIds
IncomingIds(B, fresh) ==
    {IF B[i].id # NoId THEN B[i].id ELSE fresh[i] : i \in 1..Len(B)}

\* updateOne { filter: {_id}, update: {$set: blockData}, upsert: true } and
\* insertOne: both leave the document with that _id holding blockData.  The
\* filter names the _id only, whatever page the document is stored under.
ApplyWrite(bs, op) == With(bs, op.id, op.doc)

\* Block.bulkWrite(operations), ordered: the per-block writes in array
\* order, then the trailing deleteMany.
RECURSIVE ApplyWrites(_, _, _, _, _)
ApplyWrites(bs, pageId, B, fresh, i) ==
    IF i > Len(B) THEN bs
    ELSE ApplyWrites(ApplyWrite(bs, SyncOp(pageId, B, fresh, i)), pageId, B, fresh, i + 1)

\* deleteMany { pageId, _id: { $nin: incomingBlockIds } }, or every block
\* of the page when nothing came in.
SyncDelete(bs, pageId, incoming) ==
    IF incoming # {}
    THEN Without(bs, {id \in BlocksOf(bs, pageId) : id \notin incoming})
    ELSE Without(bs, BlocksOf(bs, pageId))

BulkWrite(bs, pageId, B, next) ==
    LET fresh == FreshIds(B, next)
    IN  SyncDelete(ApplyWrites(bs, pageId, B, fresh, 1), pageId, IncomingIds(B, fresh))

syncPageBlocks ==
    /\ req.op = "save"
    /\ IF ~OwnsPage(req.user, req.pageId)
       THEN /\ resp' = Resp("save", 404)
            /\ UNCHANGED <<pages, blocks, nextPageId, nextBlockId>>
       ELSE /\ blocks' = BulkWrite(blocks, req.pageId, req.blocks, nextBlockId)
            /\ nextBlockId' = nextBlockId
                   + Cardinality({i \in 1..Len(req.blocks) : req.blocks[i].id = NoId})
            \* Block.find({ pageId }).sort({ order: 1 }) on the fresh state
            /\ \E sorted \in SortedAsc(blocks', BlocksOf(blocks', req.pageId)) :
                   resp' = [op |-> "save", status |-> 200,
                            blocks |-> [i \in 1..Len(sorted) |-> Doc(blocks', sorted[i])]]
            /\ UNCHANGED <<pages, nextPageId>>
    /\ req' = NoReq
    /\ UNCHANGED browser

----------------------------------------------------------------------------
(* Page Tree Accessor: POST /api/pages, PATCH /api/pages/[pageId],         *)
(* PATCH /api/pages/[pageId]/public                                        *)

\* A child page stored with its own id as parent
NewPageOwnParent(u, parent, title) ==
    [userId |-> u, parentPageId |-> IF parent = NoPage THEN NoPage ELSE nextPageId,
     isPublic |-> FALSE, title |-> title]

NewPage(u, parent, title) ==
    [userId |-> u, parentPageId |-> parent, isPublic |-> FALSE, title |-> title]

\* title || 'Untitled'
TitleOr(title, dflt) == IF title = "" THEN dflt ELSE title

createPage ==
    /\ req.op = "createPage"
    /\ pages' = With(pages, nextPageId, NewPage(req.user, NoPage, TitleOr(req.title, "Untitled")))
    /\ nextPageId' = nextPageId + 1
    /\ resp' = Resp("createPage", 201)
    /\ req' = NoReq
    /\ UNCHANGED <<blocks, nextBlockId>>
    /\ UNCHANGED browser

updatePage ==
    /\ req.op = "rename"
    /\ IF ~OwnsPage(req.user, req.pageId)
       THEN resp' = Resp("rename", 404) /\ UNCHANGED pages
       ELSE /\ pages' = [pages EXCEPT ![req.pageId].title = req.title]
            /\ resp' = Resp("rename", 200)
    /\ req' = NoReq
    /\ UNCHANGED <<blocks, nextPageId, nextBlockId>>
    /\ UNCHANGED browser

visibilityHandler ==
    /\ req.op = "visibility"
    /\ IF ~OwnsPage(req.user, req.pageId)
       THEN resp' = Resp("visibility", 404) /\ UNCHANGED pages
       ELSE /\ pages' = [pages EXCEPT ![req.pageId].isPublic = req.isPublic]
            /\ resp' = Resp("visibility", 200)
    /\ req' = NoReq
    /\ UNCHANGED <<blocks, nextPageId, nextBlockId>>
    /\ UNCHANGED browser

----------------------------------------------------------------------------
(* Block Store Accessor: POST /api/blocks, PATCH and DELETE                *)
(* /api/blocks/[blockId], POST /api/blocks/page                            *)

createBlock ==
    /\ req.op = "createBlock"
    /\ IF ~OwnsPage(req.user, req.pageId)
       THEN /\ resp' = Resp("createBlock", 404)
            /\ UNCHANGED <<blocks, nextBlockId>>
       ELSE LET blockOrder == IF req.order # <<>> THEN req.order[1]
                              ELSE getNextOrder(blocks, req.pageId)
            IN  /\ blocks' = With(blocks, nextBlockId,
                        [pageId |-> req.pageId, type |-> req.type,
                         content |-> req.content, order |-> blockOrder])
                /\ nextBlockId' = nextBlockId + 1
                /\ resp' = Resp("createBlock", 201)
    /\ req' = NoReq
    /\ UNCHANGED <<pages, nextPageId>>
    /\ UNCHANGED browser

\* getOwnedBlock without the look-up of the block's page
getOwnedBlockAnyPage(blockId, userId) == blockId \in DOMAIN blocks

\* getOwnedBlock: the block, if it exists and its page belongs to userId
getOwnedBlock(blockId, userId) ==
    /\ blockId \in DOMAIN blocks
    /\ OwnsPage(userId, blocks[blockId].pageId)

\* $set of the fields the body carries (content, type, order)
ApplyPatch(doc, patch) ==
    [f \in DOMAIN doc |-> IF f \in DOMAIN patch THEN patch[f] ELSE doc[f]]

updateBlock ==
    /\ req.op = "patchBlock"
    /\ IF ~getOwnedBlock(req.blockId, req.user)
       THEN resp' = Resp("patchBlock", 404) /\ UNCHANGED blocks
       ELSE /\ blocks' = [blocks EXCEPT ![req.blockId] = ApplyPatch(@, req.patch)]
            /\ resp' = Resp("patchBlock", 200)
    /\ req' = NoReq
    /\ UNCHANGED <<pages, nextPageId, nextBlockId>>
    /\ UNCHANGED browser

deleteBlock ==
    /\ req.op = "deleteBlock"
    /\ IF ~getOwnedBlock(req.blockId, req.user)
       THEN resp' = Resp("deleteBlock", 404) /\ UNCHANGED blocks
       ELSE /\ blocks' = Without(blocks, {req.blockId})
            /\ resp' = Resp("deleteBlock", 200)
    /\ req' = NoReq
    /\ UNCHANGED <<pages, nextPageId, nextBlockId>>
    /\ UNCHANGED browser

createPageBlock ==
    /\ req.op = "createPageBlock"
    /\ IF ~OwnsPage(req.user, req.parentPageId)
       THEN /\ resp' = Resp("createPageBlock", 404)
            /\ UNCHANGED <<pages, blocks, nextPageId, nextBlockId>>
       ELSE LET childId == nextPageId
                childTitle == TitleOr(req.title, "Untitled")
                \* Block.findById(afterBlockId): any block, of any page
                order == IF req.afterBlockId # NoId /\ req.afterBlockId \in DOMAIN blocks
                         THEN blocks[req.afterBlockId].order + 1
                         ELSE getNextOrder(blocks, req.parentPageId)
            IN  /\ pages' = With(pages, childId, NewPage(req.user, req.parentPageId, childTitle))
                /\ nextPageId' = nextPageId + 1
                /\ blocks' = With(blocks, nextBlockId,
                        [pageId |-> req.parentPageId, type |-> "page",
                         content |-> PageContent(Ref("oid", childId), childTitle),
                         order |-> order])
                /\ nextBlockId' = nextBlockId + 1
                /\ resp' = Resp("createPageBlock", 201)
    /\ req' = NoReq
    /\ UNCHANGED browser

----------------------------------------------------------------------------
(* Tree Deletion Service: DELETE /api/pages/[pageId]                       *)

\* Page.find({ parentPageId: pageId, userId })
ChildrenOf(ps, pageId, userId) ==
    {c \in DOMAIN ps : ps[c].parentPageId = pageId /\ ps[c].userId = userId}

\* collectDescendantPages stopping at the children of the page
collectChildrenOnly(ps, pageId, userId) == {pageId} \cup ChildrenOf(ps, pageId, userId)

\* collectDescendantPages: the page itself and, recursively, the children
\* found for userId.  No depth cap and no visited set.
RECURSIVE collectDescendantPages(_, _, _)
collectDescendantPages(ps, pageId, userId) ==
    {pageId} \cup UNION {collectDescendantPages(ps, c, userId) : c \in ChildrenOf(ps, pageId, userId)}

\* The filter of the parent clean-up,
\*   { pageId: page.parentPageId, type: 'page',
\*     $or: [{ 'content.pageId': pageId }, { 'content.pageId': pageIdStr }] }
\* pageId is the route parameter, a string, and pageIdStr = pageId.toString()
\* is that same string.  content is a Mixed field, so the driver compares the
\* stored value with the string as it is: a stored ObjectId is not equal to
\* a string.
ParentRefFilter(b, parent, pageId) ==
    LET param == Ref("str", pageId)
        pageIdStr == Ref("str", param.id)
    IN  /\ b.pageId = parent
        /\ b.type = "page"
        /\ "pageId" \in DOMAIN b.content
        /\ (b.content.pageId = param \/ b.content.pageId = pageIdStr)

deletePage ==
    /\ req.op = "deletePage"
    /\ IF ~OwnsPage(req.user, req.pageId)
       THEN /\ resp' = [op |-> "deletePage", status |-> 404, deletedCount |-> 0,
                        parentPageId |-> NoPage]
            /\ UNCHANGED <<pages, blocks>>
       ELSE LET page == pages[req.pageId]
                pagesToDelete == collectDescendantPages(pages, req.pageId, req.user)
                afterCascade == Without(blocks, {id \in DOMAIN blocks : blocks[id].pageId \in pagesToDelete})
            IN  /\ pages' = Without(pages, pagesToDelete)
                /\ blocks' =
                      IF page.parentPageId # NoPage
                      THEN Without(afterCascade,
                               {id \in DOMAIN afterCascade :
                                   ParentRefFilter(afterCascade[id], page.parentPageId, req.pageId)})
                      ELSE afterCascade
                /\ resp' = [op |-> "deletePage", status |-> 200,
                            deletedCount |-> Cardinality(pagesToDelete),
                            parentPageId |-> page.parentPageId]
    /\ req' = NoReq
    /\ UNCHANGED <<nextPageId, nextBlockId>>
    /\ UNCHANGED browser

----------------------------------------------------------------------------
(* Reconciliation Service: getPaginatedBlocks and the two read routes      *)

DefaultLimit == 20

\* limitParam === 'all' ? 0 : (parseInt(limitParam) || 20)
ParseLimit(limitParam) ==
    IF limitParam = "all" THEN 0
    ELSE IF parseNum(limitParam) > 0 THEN parseNum(limitParam) ELSE DefaultLimit

\* cursorParam && !isNaN(Number(cursorParam)): the filter order > cursor
HasCursor(cursorParam) == cursorParam # NullParam /\ parseNum(cursorParam) >= 0

\* The query keeping the block at the cursor
QueryFromCursor(bs, pageId, cursorParam) ==
    {id \in BlocksOf(bs, pageId) :
        HasCursor(cursorParam) => bs[id].order >= parseNum(cursorParam)}

\* query = { pageId }, with order: { $gt: Number(cursorParam) } under a cursor
Query(bs, pageId, cursorParam) ==
    {id \in BlocksOf(bs, pageId) :
        HasCursor(cursorParam) => bs[id].order > parseNum(cursorParam)}

\* The whole listing, whatever the limit
SubSeqAll(s, n) == s

SubSeqTo(s, n) == [i \in 1..Min2(n, Len(s)) |-> s[i]]

\* The clean-up deleting orphans in every view
OrphansAnyView(ps, bs, window, isPublicView) ==
    {window[i] : i \in {j \in 1..Len(window) :
        IsPageRef(bs[window[j]]) /\ RefTarget(bs[window[j]]) \notin DOMAIN ps}}

\* The clean-up deleting nothing
OrphansKept(ps, bs, window, isPublicView) == {}

\* orphanedBlockIds as handed to Block.deleteMany: the page blocks of the
\* window whose target was not found; nothing is deleted when isPublicView
Orphans(ps, bs, window, isPublicView) ==
    IF isPublicView THEN {}
    ELSE {window[i] : i \in {j \in 1..Len(window) :
             IsPageRef(bs[window[j]]) /\ RefTarget(bs[window[j]]) \notin DOMAIN ps}}

\* The cursor taken from the first block of the window
NextCursorFirst(bs, window) ==
    IF Len(window) > 0 THEN <<bs[window[1]].order>> ELSE <<>>

\* blocks.length > 0 ? blocks[blocks.length - 1].order : null, taken from
\* the window before anything is filtered out of it
NextCursor(bs, window) ==
    IF Len(window) > 0 THEN <<bs[window[Len(window)]].order>> ELSE <<>>

\* The block as stored, its title not touched
StoredTitle(ps, bs, id) == Doc(bs, id)

\* "Inject titles": a surviving page reference gets
\* content.title = pageInfo?.title || 'Untitled'
InjectTitle(ps, bs, id) ==
    IF IsPageRef(bs[id])
    THEN [Doc(bs, id) EXCEPT !.content.title = TitleOr(ps[RefTarget(bs[id])].title, "Untitled")]
    ELSE Doc(bs, id)

\* One outcome of getPaginatedBlocks for the listing `sorted` the store
\* returned: the window, hasMore, nextCursor, the orphans it deletes and the
\* blocks it returns.  nextCursor is <<order>>, or <<>> for null.
Reconcile(ps, bs, sorted, limit, isPublicView) ==
    LET fetched == IF limit > 0 THEN SubSeqTo(sorted, limit + 1) ELSE sorted
        hasMore == limit > 0 /\ Len(fetched) > limit
        window == IF hasMore THEN SubSeqTo(fetched, limit) ELSE fetched
        nextCursor == NextCursor(bs, window)
        exists(id) == RefTarget(bs[id]) \in DOMAIN ps
        keep(id) == ~IsPageRef(bs[id]) \/ exists(id)
        keepPublic(id) == ~IsPageRef(bs[id]) \/ (exists(id) /\ ps[RefTarget(bs[id])].isPublic)
        final == IF isPublicView
                 THEN SelectSeq(SelectSeq(window, keep), keepPublic)
                 ELSE SelectSeq(window, keep)
        enrich(id) == InjectTitle(ps, bs, id)
    IN  [window |-> window,
         hasMore |-> hasMore,
         nextCursor |-> nextCursor,
         orphans |-> Orphans(ps, bs, window, isPublicView),
         blocks |-> [i \in 1..Len(final) |-> enrich(final[i])]]

\* getPaginatedBlocks(pageId, limitParam, cursorParam, isPublicView): the
\* set of its possible outcomes, one per listing the sort may return
getPaginatedBlocks(ps, bs, pageId, limitParam, cursorParam, isPublicView) ==
    {Reconcile(ps, bs, sorted, ParseLimit(limitParam), isPublicView) :
        sorted \in SortedAsc(bs, Query(bs, pageId, cursorParam))}

ReadResp(op, out) ==
    [op |-> op, status |-> 200, blocks |-> out.blocks,
     nextCursor |-> out.nextCursor, hasMore |-> out.hasMore]

\* GET /api/pages/[pageId].  The deleteMany of the orphans is issued inside
\* getPaginatedBlocks; the store after the call is the store without them.
getPage ==
    /\ req.op = "read"
    /\ IF ~OwnsPage(req.user, req.pageId)
       THEN resp' = Resp("read", 404) /\ UNCHANGED blocks
       ELSE \E out \in getPaginatedBlocks(pages, blocks, req.pageId, req.limit, req.cursor, FALSE) :
                /\ blocks' = Without(blocks, out.orphans)
                /\ resp' = ReadResp("read", out)
    /\ req' = NoReq
    /\ UNCHANGED <<pages, nextPageId, nextBlockId>>
    /\ UNCHANGED browser

\* The gate letting every existing page through
PublicGateExistsOnly(ps, pageId) == IF pageId \notin DOMAIN ps THEN 404 ELSE 200

\* Page.findById(pageId); 404 when there is none, 403 when !page.isPublic
PublicGate(ps, pageId) ==
    IF pageId \notin DOMAIN ps THEN 404
    ELSE IF ~ps[pageId].isPublic THEN 403
    ELSE 200

\* GET /api/public/pages/[pageId]
publicGET ==
    /\ req.op = "publicRead"
    /\ IF PublicGate(pages, req.pageId) # 200
       THEN resp' = Resp("publicRead", PublicGate(pages, req.pageId)) /\ UNCHANGED blocks
       ELSE \E out \in getPaginatedBlocks(pages, blocks, req.pageId, req.limit, req.cursor, TRUE) :
                /\ blocks' = Without(blocks, out.orphans)
                /\ resp' = ReadResp("publicRead", out)
    /\ req' = NoReq
    /\ UNCHANGED <<pages, nextPageId, nextBlockId>>
    /\ UNCHANGED browser

\* The second public page route of the repository: the same gate, then
\* every block of the page in order, page blocks enriched with the title of
\* their target ('Untitled' when there is none); nothing is filtered.
UnpagedBlocks(ps, bs, sorted) ==
    [i \in 1..Len(sorted) |->
        IF IsPageRef(bs[sorted[i]])
        THEN [Doc(bs, sorted[i]) EXCEPT !.content.title =
                 IF RefTarget(bs[sorted[i]]) \in DOMAIN ps
                 THEN TitleOr(ps[RefTarget(bs[sorted[i]])].title, "Untitled")
                 ELSE "Untitled"]
        ELSE Doc(bs, sorted[i])]

publicGETUnpaged ==
    /\ req.op = "publicReadUnpaged"
    /\ IF PublicGate(pages, req.pageId) # 200
       THEN resp' = Resp("publicReadUnpaged", PublicGate(pages, req.pageId))
       ELSE \E sorted \in SortedAsc(blocks, BlocksOf(blocks, req.pageId)) :
                resp' = [op |-> "publicReadUnpaged", status |-> 200,
                         blocks |-> UnpagedBlocks(pages, blocks, sorted)]
    /\ req' = NoReq
    /\ UNCHANGED <<pages, blocks, nextPageId, nextBlockId>>
    /\ UNCHANGED browser

----------------------------------------------------------------------------
(* Import Service: POST /api/pages/[pageId]/import                         *)

ImportCap == 50

\* Block.find({ pageId: sourcePageId }): page references included
ClonableAll(bs, sourcePageId) == BlocksOf(bs, sourcePageId)

\* Block.find({ pageId: sourcePageId, type: { $ne: 'page' } })
Clonable(bs, sourcePageId) == {id \in BlocksOf(bs, sourcePageId) : bs[id].type # "page"}

\* Re-parenting the source rows instead of copying them
InsertClonesMoved(bs, targetPageId, source, next, highest) ==
    [x \in DOMAIN bs |->
        IF \E i \in 1..Len(source) : source[i] = x
        THEN [bs[x] EXCEPT !.pageId = targetPageId]
        ELSE bs[x]]

\* insertMany(clonedBlocks): clone i of the listing gets the next ObjectId
\* and the order currentHighestOrder + i
InsertClones(bs, targetPageId, source, next, highest) ==
    [x \in DOMAIN bs \cup {next + i - 1 : i \in 1..Len(source)} |->
        IF x \in DOMAIN bs THEN bs[x]
        ELSE [pageId |-> targetPageId,
              type |-> bs[source[x - next + 1]].type,
              content |-> bs[source[x - next + 1]].content,
              order |-> highest + (x - next + 1)]]

\* !targetPage.title || title.trim() === 'Untitled' || title.trim() === ''
IsPlaceholderTitle(title) == title = "" \/ title = "Untitled"

importBlocks ==
    /\ req.op = "import"
    /\ IF req.pageId = req.sourcePageId
       THEN resp' = Resp("import", 400) /\ UNCHANGED <<pages, blocks, nextBlockId>>
       ELSE IF ~OwnsPage(req.user, req.pageId)
       THEN resp' = Resp("import", 404) /\ UNCHANGED <<pages, blocks, nextBlockId>>
       ELSE IF req.sourcePageId \notin DOMAIN pages
       THEN resp' = Resp("import", 404) /\ UNCHANGED <<pages, blocks, nextBlockId>>
       ELSE IF ~pages[req.sourcePageId].isPublic
       THEN resp' = Resp("import", 403) /\ UNCHANGED <<pages, blocks, nextBlockId>>
       ELSE IF Clonable(blocks, req.sourcePageId) = {}
       THEN resp' = Resp("import", 400) /\ UNCHANGED <<pages, blocks, nextBlockId>>
       ELSE \E sorted \in SortedAsc(blocks, Clonable(blocks, req.sourcePageId)) :
              LET sourceBlocks == SubSeqTo(sorted, ImportCap)
                  currentHighestOrder == getNextOrder(blocks, req.pageId) - 1
              IN  /\ blocks' = InsertClones(blocks, req.pageId, sourceBlocks,
                                            nextBlockId, currentHighestOrder)
                  /\ nextBlockId' = nextBlockId + Len(sourceBlocks)
                  /\ pages' = IF IsPlaceholderTitle(pages[req.pageId].title)
                              THEN [pages EXCEPT ![req.pageId].title =
                                       TitleOr(pages[req.sourcePageId].title, "Imported Page")]
                              ELSE pages
                  /\ resp' = Resp("import", 200)
    /\ req' = NoReq
    /\ UNCHANGED nextPageId
    /\ UNCHANGED browser

----------------------------------------------------------------------------
(* The environment: which requests arrive                                  *)

\* Ids a client can name: every ObjectId handed out so far, whether its
\* document still exists or not.
KnownPageIds == 1..(nextPageId - 1)
KnownBlockIds == 1..(nextBlockId - 1)

\* What a snapshot item can carry.  JSON carries a page reference as a string.
TextPayloads(texts) == {[type |-> "paragraph", content |-> TextContent(t)] : t \in texts}
PagePayloads(targets, title) ==
    {[type |-> "page", content |-> PageContent(Ref("str", q), title)] : q \in targets}

\* A snapshot item: its _id (NoId when it has none that is a valid ObjectId,
\* as the editor's temp-... ids), its payload and the order the client sent.
Items(ids, payloads, orders) ==
    {[id |-> i, type |-> pl.type, content |-> pl.content, order |-> o] :
        i \in ids, pl \in payloads, o \in orders}

RECURSIVE SeqsUpTo(_, _)
SeqsUpTo(S, n) ==
    IF n = 0 THEN {<<>>}
    ELSE LET shorter == SeqsUpTo(S, n - 1)
         IN  shorter \cup {Append(s, x) : s \in {t \in shorter : Len(t) = n - 1}, x \in S}

NewIdsIn(B) == Cardinality({i \in 1..Len(B) : B[i].id = NoId})

NumParams(S) == {NumStr[n + 1] : n \in S}

SaveRequests(users, items, maxSave, maxBlocks) ==
    {[op |-> "save", user |-> u, pageId |-> p, blocks |-> B] :
        u \in users, p \in KnownPageIds,
        B \in {b \in SeqsUpTo(items, maxSave) : nextBlockId + NewIdsIn(b) - 1 <= maxBlocks}}

CreatePageRequests(users, maxPages) ==
    IF nextPageId <= maxPages
    THEN {[op |-> "createPage", user |-> u, title |-> ""] : u \in users}
    ELSE {}

RenameRequests(users, titles) ==
    {[op |-> "rename", user |-> u, pageId |-> p, title |-> t] :
        u \in users, p \in KnownPageIds, t \in titles}

VisibilityRequests(users) ==
    {[op |-> "visibility", user |-> u, pageId |-> p, isPublic |-> v] :
        u \in users, p \in KnownPageIds, v \in BOOLEAN}

\* orders: <<>> when the body carries no order, <<n>> when it carries n
CreateBlockRequests(users, texts, orders, maxBlocks) ==
    IF nextBlockId <= maxBlocks
    THEN {[op |-> "createBlock", user |-> u, pageId |-> p, type |-> "paragraph",
           content |-> TextContent(t), order |-> o] :
             u \in users, p \in KnownPageIds, t \in texts, o \in orders}
    ELSE {}

PatchRequests(users, patches) ==
    {[op |-> "patchBlock", user |-> u, blockId |-> b, patch |-> pt] :
        u \in users, b \in KnownBlockIds, pt \in patches}

DeleteBlockRequests(users) ==
    {[op |-> "deleteBlock", user |-> u, blockId |-> b] : u \in users, b \in KnownBlockIds}

CreatePageBlockRequests(users, afterIds, maxPages, maxBlocks) ==
    IF nextPageId <= maxPages /\ nextBlockId <= maxBlocks
    THEN {[op |-> "createPageBlock", user |-> u, parentPageId |-> p,
           afterBlockId |-> a, title |-> ""] :
             u \in users, p \in KnownPageIds, a \in afterIds}
    ELSE {}

DeletePageRequests(users) ==
    {[op |-> "deletePage", user |-> u, pageId |-> p] : u \in users, p \in KnownPageIds}

ReadRequests(users, limits, cursors) ==
    {[op |-> "read", user |-> u, pageId |-> p, limit |-> l, cursor |-> c] :
        u \in users, p \in KnownPageIds, l \in limits, c \in cursors}

PublicReadRequests(op, limits, cursors) ==
    {[op |-> op, pageId |-> p, limit |-> l, cursor |-> c] :
        p \in KnownPageIds, l \in limits, c \in cursors}

ImportRequests(users, maxBlocks) ==
    {[op |-> "import", user |-> u, pageId |-> p, sourcePageId |-> q] :
        u \in users, p \in KnownPageIds,
        q \in {x \in KnownPageIds :
                 nextBlockId + Cardinality(Clonable(blocks, x)) - 1 <= maxBlocks}}

\* JSON.stringify of block content: an ObjectId travels as its hex string
JsonContent(content) ==
    IF "pageId" \in DOMAIN content
    THEN [content EXCEPT !.pageId = Ref("str", content.pageId.id)]
    ELSE content

\* saveAllBlocks: the editor sends back the blocks it loaded, as it holds
\* them (ids, types and contents as the JSON of a read carried them)
ResaveRequests(users) ==
    UNION {{[op |-> "save", user |-> u, pageId |-> p,
             blocks |-> [i \in 1..Len(sorted) |->
                            [id |-> sorted[i], type |-> blocks[sorted[i]].type,
                             content |-> JsonContent(blocks[sorted[i]].content),
                             order |-> blocks[sorted[i]].order]]] :
               u \in users, sorted \in SortedAsc(blocks, BlocksOf(blocks, p))} :
           p \in DOMAIN pages}

\* A request arrives when the service is idle
Arrive(requests) ==
    /\ req = NoReq
    /\ resp = NoResp
    /\ \E r \in requests : req' = r
    /\ UNCHANGED <<pages, blocks, nextPageId, nextBlockId, resp>>
    /\ UNCHANGED browser

\* The response leaves
Reply ==
    /\ req = NoReq
    /\ resp # NoResp
    /\ resp' = NoResp
    /\ UNCHANGED <<pages, blocks, nextPageId, nextBlockId, req>>
    /\ UNCHANGED browser

Init ==
    /\ pages = <<>>
    /\ blocks = <<>>
    /\ nextPageId = 1
    /\ nextBlockId = 1
    /\ req = NoReq
    /\ resp = NoResp
    /\ BrowserIdle

----------------------------------------------------------------------------
(* The whole service: every endpoint, two users                            *)

\* ObjectIds the collections hand out in this environment
PagePool == {1, 2}
BlockPool == {1, 2}

Request ==
    Arrive(CreatePageRequests(Users, Cardinality(PagePool))
           \cup RenameRequests(Users, {"Doc"})
           \cup VisibilityRequests(Users)
           \cup CreateBlockRequests(Users, {"a"}, {<<>>}, Cardinality(BlockPool))
           \cup PatchRequests(Users, {[content |-> TextContent("b")]})
           \cup DeleteBlockRequests(Users)
           \cup CreatePageBlockRequests(Users, {NoId}, Cardinality(PagePool), Cardinality(BlockPool))
           \cup DeletePageRequests(Users)
           \cup SaveRequests(Users,
                    Items({NoId} \cup KnownBlockIds, TextPayloads({"a"}), {0}),
                    MaxSave - 1, Cardinality(BlockPool))
           \cup ReadRequests(Users, {"all"}, {NullParam})
           \cup PublicReadRequests("publicRead", {"all"}, {NullParam})
           \cup PublicReadRequests("publicReadUnpaged", {"all"}, {NullParam})
           \cup ImportRequests(Users, Cardinality(BlockPool)))

Next ==
    \/ Request
    \/ Reply
    \/ createPage
    \/ updatePage
    \/ visibilityHandler
    \/ createBlock
    \/ updateBlock
    \/ deleteBlock
    \/ createPageBlock
    \/ deletePage
    \/ syncPageBlocks
    \/ getPage
    \/ publicGET
    \/ publicGETUnpaged
    \/ importBlocks

Spec == Init /\ [][Next]_vars

----------------------------------------------------------------------------
(* The save endpoint: one editor, two pages, snapshots up to MaxSave       *)

SyncUsers == {"u1"}
SyncPagePool == {1, 2}
SyncBlockPool == {1, 2, 3}

\* The order a client sends with a snapshot item: addBlock sends the index
\* it computed, removeBlock leaves stale ones behind.
SentOrders == {MaxSave + 1}

RequestSync ==
    Arrive(CreatePageRequests(SyncUsers, Cardinality(SyncPagePool))
           \cup DeletePageRequests(SyncUsers)
           \cup SaveRequests(SyncUsers,
                    Items({NoId} \cup KnownBlockIds,
                          TextPayloads({"a"}) \cup PagePayloads({1}, "Old"),
                          SentOrders),
                    MaxSave, Cardinality(SyncBlockPool)))

NextSync ==
    \/ RequestSync
    \/ Reply
    \/ createPage
    \/ deletePage
    \/ syncPageBlocks

SpecSync == Init /\ [][NextSync]_vars

----------------------------------------------------------------------------
(* C1  Save-replace                                                        *)

\* What a snapshot B asks the page to hold: item i at order i - 1
Snapshot(B) ==
    [i \in 1..Len(B) |-> [type |-> B[i].type, content |-> B[i].content, order |-> i - 1]]

TypeContentOrder(docs) ==
    [i \in 1..Len(docs) |->
        [type |-> docs[i].type, content |-> docs[i].content, order |-> docs[i].order]]

\* The page's stored blocks, in each listing by order the store can give
StoredListings(bs, p) ==
    {[i \in 1..Len(sorted) |-> Doc(bs, sorted[i])] : sorted \in SortedAsc(bs, BlocksOf(bs, p))}

\* A full owner read: limit "all", no cursor
FullReads(ps, bs, p) ==
    {out.blocks : out \in getPaginatedBlocks(ps, bs, p, "all", NullParam, FALSE)}

\* The valid ids of a snapshot are pairwise distinct
DistinctIds(B) ==
    \A i, j \in 1..Len(B) : (i # j /\ B[i].id # NoId) => B[i].id # B[j].id

HasPageRef(B) == \E i \in 1..Len(B) : B[i].type = "page"

SaveDone == req.op = "save" /\ resp'.op = "save" /\ resp'.status = 200

\* C1 as claimed: after a successful save(pageId, B) a full read of pageId
\* returns exactly B's (type, content) sequence at orders 0..|B|-1, and an
\* empty B leaves the page without blocks.
C1_SaveReplaceAsClaimed ==
    [][SaveDone =>
          /\ \A read \in FullReads(pages', blocks', req.pageId) :
                 TypeContentOrder(read) = Snapshot(req.blocks)
          /\ (req.blocks = <<>> => BlocksOf(blocks', req.pageId) = {})]_vars

\* C1 amended: when the valid ids of B are pairwise distinct, after a
\* successful save(pageId, B) the page stores exactly |B| blocks whose
\* (type, content) sequence is B's at orders 0..|B|-1, whatever orders the
\* client sent and whatever the page held before; a full read returns that
\* sequence when B holds no page-reference block (the read reconciles those);
\* an empty B leaves the page without blocks.
C1_SaveReplace ==
    [][(SaveDone /\ DistinctIds(req.blocks)) =>
          /\ \A listing \in StoredListings(blocks', req.pageId) :
                 TypeContentOrder(listing) = Snapshot(req.blocks)
          /\ TypeContentOrder(resp'.blocks) = Snapshot(req.blocks)
          /\ (~HasPageRef(req.blocks) =>
                 \A read \in FullReads(pages', blocks', req.pageId) :
                     TypeContentOrder(read) = Snapshot(req.blocks))
          /\ (req.blocks = <<>> => BlocksOf(blocks', req.pageId) = {})]_vars

\* A save of two blocks has answered: one of them a page reference, stored
\* at order 1, while another page holds a block too.
C1_Witness ==
    /\ resp.op = "save" /\ resp.status = 200
    /\ Len(resp.blocks) = 2
    /\ resp.blocks[2].type = "page" /\ resp.blocks[2].order = 1
    /\ \E id \in DOMAIN blocks : blocks[id].pageId # resp.blocks[1].pageId

----------------------------------------------------------------------------
(* C2  Blocks are mutated by the owner of their page only                  *)

\* The request being served carries an authenticated user
ByUser == "user" \in DOMAIN req

\* The blocks stored under pages the user u does not own
ForeignBlocks(u) == {id \in DOMAIN blocks : ~OwnsPage(u, blocks[id].pageId)}

\* C2: whatever request a user U makes, every block stored under a page
\* that U does not own is left exactly as it was; in particular a save
\* naming the id of a block of another user's page does not alter it.
C2_OwnerOnlyMutation ==
    [][ByUser =>
          \A id \in ForeignBlocks(req.user) :
              id \in DOMAIN blocks' /\ blocks'[id] = blocks[id]]_vars

----------------------------------------------------------------------------
(* C3  Fail closed on ownership                                            *)

PageOps == {"save", "deletePage", "import", "createBlock", "rename", "visibility", "read"}
BlockOps == {"patchBlock", "deleteBlock"}

\* The request names a target page that does not exist or belongs to
\* another user.  A block endpoint targets the page its block is stored
\* under; a block that does not exist has no such page.
TargetNotOwned ==
    \/ req.op \in PageOps /\ ~OwnsPage(req.user, req.pageId)
    \/ req.op = "createPageBlock" /\ ~OwnsPage(req.user, req.parentPageId)
    \/ /\ req.op \in BlockOps
       /\ \/ req.blockId \notin DOMAIN blocks
          \/ ~OwnsPage(req.user, blocks[req.blockId].pageId)

SelfImport == req.op = "import" /\ req.pageId = req.sourcePageId

StoreUntouched ==
    pages' = pages /\ blocks' = blocks /\ nextPageId' = nextPageId /\ nextBlockId' = nextBlockId

\* C3 as claimed: a request on a page that is missing or not owned answers
\* NotFound (404) and leaves the Page and Block stores as they were.
C3_FailClosedAsClaimed ==
    [][TargetNotOwned => (resp'.status = 404 /\ StoreUntouched)]_vars

\* C3 amended: a request on a page that is missing or not owned leaves the
\* Page and Block stores as they were and answers an error: NotFound (404),
\* except an import that names its own target as the source, which is
\* refused as a bad request (400) before ownership is looked at.
C3_FailClosed ==
    [][TargetNotOwned =>
          /\ StoreUntouched
          /\ resp'.status = IF SelfImport THEN 400 ELSE 404]_vars

\* A patch of a block stored under another user's page has been refused
C3_Witness ==
    /\ resp.op = "patchBlock" /\ resp.status = 404
    /\ \E id \in DOMAIN blocks : \E u \in Users : ~OwnsPage(u, blocks[id].pageId)
    /\ Cardinality({pages[p].userId : p \in DOMAIN pages}) = 2

----------------------------------------------------------------------------
(* Nested pages: page blocks, saves of loaded pages, deletions             *)

TreePagePool == {1, 2, 3, 4}
TreeBlockPool == {1, 2, 3, 4}

RequestTree ==
    Arrive(CreatePageRequests(Users, Cardinality(TreePagePool) - 2)
           \cup CreatePageBlockRequests(Users, {NoId}, Cardinality(TreePagePool),
                                        Cardinality(TreeBlockPool))
           \cup CreateBlockRequests({"u1"}, {"a"}, {<<>>}, Cardinality(TreeBlockPool))
           \cup ResaveRequests({"u1"})
           \cup DeletePageRequests(Users))

NextTree ==
    \/ RequestTree
    \/ Reply
    \/ createPage
    \/ createPageBlock
    \/ createBlock
    \/ syncPageBlocks
    \/ deletePage

SpecTree == Init /\ [][NextTree]_vars

----------------------------------------------------------------------------
(* C4  Cascade completeness                                                *)

\* p is root or lies below it, following parentPageId upwards
RECURSIVE IsUnder(_, _, _)
IsUnder(ps, p, root) ==
    \/ p = root
    \/ /\ p \in DOMAIN ps
       /\ ps[p].parentPageId # NoPage
       /\ IsUnder(ps, ps[p].parentPageId, root)

Subtree(ps, root) == {p \in DOMAIN ps : IsUnder(ps, p, root)}

DeleteDone == req.op = "deletePage" /\ resp'.op = "deletePage" /\ resp'.status = 200

\* The reference blocks the parent holds for the deleted page
ParentRefs(parent, pageId) ==
    {id \in BlocksOf(blocks, parent) :
        IsPageRef(blocks[id]) /\ RefTarget(blocks[id]) = pageId}

----------------------------------------------------------------------------
(* C5  Deleting a child page removes the parent's reference block          *)

\* C5: after the owner deletes a page C whose parent is Q, Q holds no
\* page-reference block whose content.pageId is C, in whichever form the
\* reference was stored.
C5_ParentRefRemoved ==
    [][(DeleteDone /\ pages[req.pageId].parentPageId # NoPage) =>
          \A id \in BlocksOf(blocks', pages[req.pageId].parentPageId) :
              ~(IsPageRef(blocks'[id]) /\ RefTarget(blocks'[id]) = req.pageId)]_vars

----------------------------------------------------------------------------
(* Reading: nested pages, visibility, owner and public reads in windows    *)

ReadUsers == {"u1"}
ReadPagePool == {1, 2, 3}
ReadBlockPool == {1, 2, 3, 4}

Limits == NumParams(1..MaxLimit) \cup {"all"}
Cursors == NumParams(0..(MaxLimit - 1)) \cup {NullParam}

RequestRead ==
    Arrive(CreatePageRequests(ReadUsers, 1)
           \cup CreatePageBlockRequests(ReadUsers, {NoId}, Cardinality(ReadPagePool),
                                        Cardinality(ReadBlockPool))
           \cup CreateBlockRequests(ReadUsers, {"a"}, {<<>>, <<0>>}, Cardinality(ReadBlockPool))
           \cup DeletePageRequests(ReadUsers)
           \cup VisibilityRequests(ReadUsers)
           \cup ReadRequests(ReadUsers, Limits, Cursors)
           \cup PublicReadRequests("publicRead", Limits, Cursors)
           \cup PublicReadRequests("publicReadUnpaged", {"all"}, {NullParam}))

NextRead ==
    \/ RequestRead
    \/ Reply
    \/ createPage
    \/ createPageBlock
    \/ createBlock
    \/ deletePage
    \/ visibilityHandler
    \/ getPage
    \/ publicGET
    \/ publicGETUnpaged

SpecRead == Init /\ [][NextRead]_vars

\* The handler of op has answered 200 in this step
ReadDone(op) == req.op = op /\ resp'.op = op /\ resp'.status = 200

Ids(docs) == [i \in 1..Len(docs) |-> docs[i].id]

\* A page-reference block whose target page does not exist
IsOrphan(ps, bs, id) == IsPageRef(bs[id]) /\ RefTarget(bs[id]) \notin DOMAIN ps

\* The blocks of page p with order strictly greater than the cursor
Selected(bs, p, cursorParam) ==
    {id \in BlocksOf(bs, p) :
        cursorParam = NullParam \/ bs[id].order > parseNum(cursorParam)}

\* The windows a read may select: the L lowest-order selected blocks in
\* ascending order, all of them under limit "all"
Windows(bs, p, limitParam, cursorParam) ==
    LET sel == Selected(bs, p, cursorParam)
        L == IF limitParam = "all" THEN Cardinality(sel) ELSE parseNum(limitParam)
    IN  {SubSeqTo(sorted, L) : sorted \in SortedAsc(bs, sel)}

WithoutOrphans(ps, bs, w) ==
    LET kept(id) == ~IsOrphan(ps, bs, id) IN SelectSeq(w, kept)

\* What a view shows of a window: no orphans, and in the public view no
\* reference to a page that is not public
Visible(ps, bs, w, isPublicView) ==
    LET shown(id) == IsPageRef(bs[id]) /\ isPublicView => ps[RefTarget(bs[id])].isPublic
    IN  SelectSeq(WithoutOrphans(ps, bs, w), shown)

----------------------------------------------------------------------------
(* C6  Owner-view orphan cleanup                                           *)

\* C6: an owner read deletes from the store exactly the page-reference
\* blocks of its window whose target page does not exist, returns the
\* window without them, and leaves every other block as it was.
C6_OwnerCleanup ==
    [][ReadDone("read") =>
          \E w \in Windows(blocks, req.pageId, req.limit, req.cursor) :
              /\ DOMAIN blocks' =
                     DOMAIN blocks \ {w[i] : i \in {j \in 1..Len(w) : IsOrphan(pages, blocks, w[j])}}
              /\ \A id \in DOMAIN blocks' : blocks'[id] = blocks[id]
              /\ Ids(resp'.blocks) = WithoutOrphans(pages, blocks, w)
              /\ pages' = pages]_vars

\* An owner read has answered whose window ended in a block it does not
\* return: the cursor it reports is not the order of its last block
C6_Witness ==
    /\ resp.op = "read" /\ resp.status = 200
    /\ resp.blocks # <<>>
    /\ resp.nextCursor # <<resp.blocks[Len(resp.blocks)].order>>

----------------------------------------------------------------------------
(* C7  A public read never mutates the store                               *)

PublicReadOps == {"publicRead", "publicReadUnpaged"}

\* C7: whatever page, limit and cursor a public read names, the Page and
\* Block stores after it are the stores before it, orphans in the window
\* included.
C7_PublicReadOnly ==
    [][req.op \in PublicReadOps => (pages' = pages /\ blocks' = blocks)]_vars

\* A public read has answered without an orphan that closes its window,
\* and the orphan is still stored under the page
C7_Witness ==
    /\ resp.op = "publicRead" /\ resp.status = 200
    /\ resp.blocks # <<>>
    /\ \E id \in BlocksOf(blocks, resp.blocks[1].pageId) :
           /\ IsOrphan(pages, blocks, id)
           /\ resp.nextCursor = <<blocks[id].order>>

----------------------------------------------------------------------------
(* C8  A public read returns no reference to a missing or private page     *)

\* C8: every page-reference block in the answer of a public read targets a
\* page that exists and is public.
C8_PublicRefsArePublic ==
    [][\A op \in PublicReadOps : ReadDone(op) =>
          \A i \in 1..Len(resp'.blocks) :
              IsPageRef(resp'.blocks[i]) =>
                  /\ RefTarget(resp'.blocks[i]) \in DOMAIN pages
                  /\ pages[RefTarget(resp'.blocks[i])].isPublic]_vars

----------------------------------------------------------------------------
(* C9  Public read gating                                                  *)

\* The answer a public read of page p must get
Gate(p) ==
    IF p \notin DOMAIN pages THEN 404
    ELSE IF pages[p].isPublic THEN 200 ELSE 403

\* C9: a public read of P answers blocks only when P exists and is public
\* as the read runs, NotFound (404) when P is missing and Forbidden (403)
\* when it is not public, so that after a toggle to isPublic = false every
\* public read of P is Forbidden; an import from a source that is missing
\* or not public is refused and writes nothing, with Forbidden when the
\* importer owns the target and the source exists.
C9_PublicGating ==
    [][/\ req.op \in PublicReadOps =>
            /\ resp'.status = Gate(req.pageId)
            /\ ("blocks" \in DOMAIN resp') = (Gate(req.pageId) = 200)
       /\ (req.op = "import" /\ Gate(req.sourcePageId) # 200) =>
            /\ resp'.status \in {400, 403, 404}
            /\ StoreUntouched
            /\ (OwnsPage(req.user, req.pageId) /\ ~SelfImport /\ Gate(req.sourcePageId) = 403)
                   => resp'.status = 403]_vars

\* A public read of a page that holds blocks and is not public has been
\* refused
C9_Witness ==
    /\ resp.op \in PublicReadOps /\ resp.status = 403
    /\ \E p \in DOMAIN pages : ~pages[p].isPublic /\ BlocksOf(blocks, p) # {}
    /\ \E p \in DOMAIN pages : pages[p].isPublic

----------------------------------------------------------------------------
(* C10  Pagination window                                                  *)

PagedReadOps == {"read", "publicRead"}

\* C10: a read under cursor c and limit L selects, before any filtering,
\* the L lowest-order blocks of the page with order > c in ascending order
\* (all of them when there are no more than L, or under limit "all"), and
\* reports hasMore exactly when L is numeric and more than L blocks have
\* order > c; the blocks it answers are that window as its view shows it.
C10_Window ==
    [][\A op \in PagedReadOps : ReadDone(op) =>
          LET sel == Selected(blocks, req.pageId, req.cursor)
              more == req.limit # "all" /\ Cardinality(sel) > parseNum(req.limit)
              windows == Windows(blocks, req.pageId, req.limit, req.cursor)
          IN  /\ \A out \in getPaginatedBlocks(pages, blocks, req.pageId, req.limit,
                                                req.cursor, op = "publicRead") :
                     out.window \in windows /\ out.hasMore = more
              /\ resp'.hasMore = more
              /\ \E w \in windows :
                     Ids(resp'.blocks) = Visible(pages, blocks, w, op = "publicRead")]_vars

\* A read of a page of three blocks has answered two of them and hasMore
C10_Witness ==
    /\ resp.op = "read" /\ resp.status = 200
    /\ resp.hasMore
    /\ Len(resp.blocks) = 2
    /\ Cardinality(BlocksOf(blocks, resp.blocks[1].pageId)) = 3

----------------------------------------------------------------------------
(* C11  nextCursor                                                         *)

\* The cursor that names the last of the docs, null (<<>>) for none
CursorOfLast(docs) == IF docs = <<>> THEN <<>> ELSE <<docs[Len(docs)].order>>

\* C11 as claimed: the nextCursor of a read is the order of the last block
\* it returns, and is null exactly when it returns no block.
C11_CursorOfReturnedAsClaimed ==
    [][\A op \in PagedReadOps : ReadDone(op) =>
          resp'.nextCursor = CursorOfLast(resp'.blocks)]_vars

\* C11 amended: the nextCursor of a read is the order of the last block of
\* the window it selected before filtering, null exactly when that window
\* is empty; it is the order of the last returned block whenever the last
\* block of the window is returned.
C11_CursorOfWindow ==
    [][\A op \in PagedReadOps : ReadDone(op) =>
          \E w \in Windows(blocks, req.pageId, req.limit, req.cursor) :
              /\ Ids(resp'.blocks) = Visible(pages, blocks, w, op = "publicRead")
              /\ resp'.nextCursor = IF w = <<>> THEN <<>> ELSE <<blocks[w[Len(w)]].order>>
              /\ (w = <<>>) = (resp'.nextCursor = <<>>)
              /\ (resp'.blocks # <<>> /\ resp'.blocks[Len(resp'.blocks)].id = w[Len(w)])
                     => resp'.nextCursor = CursorOfLast(resp'.blocks)]_vars

\* A public read has answered two blocks of a longer page, with the order
\* of the second as its cursor
C11_Witness ==
    /\ resp.op = "publicRead" /\ resp.status = 200
    /\ Len(resp.blocks) = 2
    /\ resp.hasMore
    /\ resp.nextCursor = <<resp.blocks[2].order>>

----------------------------------------------------------------------------
(* C12  Cursor traversal                                                   *)

\* Number -> query parameter, as the client appends it to the URL
CursorParam(nextCursor) == NumStr[nextCursor[1] + 1]

\* The ids a client collects that reads page p from cursorParam on and
\* follows nextCursor until hasMore is false, nothing else writing in
\* between; an owner read leaves the store without the orphans it met.
\* One sequence per way the store may break ties.
RECURSIVE Traverse(_, _, _, _, _, _)
Traverse(ps, bs, p, limitParam, cursorParam, isPublicView) ==
    UNION {IF out.hasMore
           THEN {Ids(out.blocks) \o rest :
                    rest \in Traverse(ps, Without(bs, out.orphans), p, limitParam,
                                      CursorParam(out.nextCursor), isPublicView)}
           ELSE {Ids(out.blocks)} :
              out \in getPaginatedBlocks(ps, bs, p, limitParam, cursorParam, isPublicView)}

\* The blocks of page p that a view does not filter out
Shown(ps, bs, p, isPublicView) ==
    {id \in BlocksOf(bs, p) :
        /\ ~IsOrphan(ps, bs, id)
        /\ (IsPageRef(bs[id]) /\ isPublicView) => ps[RefTarget(bs[id])].isPublic}

\* t lists every id of S exactly once, in non-decreasing order
ListsOnceInOrder(bs, t, S) ==
    /\ {t[i] : i \in 1..Len(t)} = S
    /\ Len(t) = Cardinality(S)
    /\ \A i \in 1..(Len(t) - 1) : bs[t[i]].order <= bs[t[i + 1]].order

\* C12: in every state, a traversal of any page from a null cursor, under
\* any limit and in either view, returns every block of the page that the
\* view does not filter out exactly once, in non-decreasing order.
C12_TraversalComplete ==
    \A p \in DOMAIN pages : \A l \in NumParams(1..MaxLimit) :
        \A isPublicView \in {v \in BOOLEAN : v => pages[p].isPublic} :
            \A t \in Traverse(pages, blocks, p, l, NullParam, isPublicView) :
                ListsOnceInOrder(blocks, t, Shown(pages, blocks, p, isPublicView))

----------------------------------------------------------------------------
(* Ordering: every endpoint that writes an order                           *)

OrderUsers == {"u1"}
OrderPagePool == {1, 2}
OrderBlockPool == {1, 2, 3}

RequestOrder ==
    Arrive(CreatePageRequests(OrderUsers, Cardinality(OrderPagePool))
           \cup CreateBlockRequests(OrderUsers, {"a"}, {<<>>, <<0>>}, Cardinality(OrderBlockPool))
           \cup CreatePageBlockRequests(OrderUsers, {NoId} \cup KnownBlockIds,
                                        Cardinality(OrderPagePool), Cardinality(OrderBlockPool))
           \cup PatchRequests(OrderUsers, {[order |-> 0]})
           \cup DeleteBlockRequests(OrderUsers)
           \cup VisibilityRequests(OrderUsers)
           \cup SaveRequests(OrderUsers,
                    Items({NoId} \cup KnownBlockIds, TextPayloads({"a"}), {0}),
                    MaxSave, Cardinality(OrderBlockPool))
           \cup ImportRequests(OrderUsers, Cardinality(OrderBlockPool)))

NextOrder ==
    \/ RequestOrder
    \/ Reply
    \/ createPage
    \/ createBlock
    \/ createPageBlock
    \/ updateBlock
    \/ deleteBlock
    \/ visibilityHandler
    \/ syncPageBlocks
    \/ importBlocks

SpecOrder == Init /\ [][NextOrder]_vars

----------------------------------------------------------------------------
(* C13  order is a strict total ordering within a page                     *)

\* C13: in every state no two blocks of the same page have the same order.
C13_OrderStrict ==
    \A a, b \in DOMAIN blocks :
        (a # b /\ blocks[a].pageId = blocks[b].pageId) => blocks[a].order # blocks[b].order

----------------------------------------------------------------------------
(* C14  Save id handling                                                   *)

\* The row stored for item i of a snapshot, under the id given
HoldsItem(bs, id, pageId, B, i) ==
    /\ id \in DOMAIN bs
    /\ bs[id] = [pageId |-> pageId, type |-> B[i].type,
                 content |-> B[i].content, order |-> i - 1]

\* Item i is the last of the snapshot to carry its id
LastWithId(B, i) == \A j \in (i + 1)..Len(B) : B[j].id # B[i].id

\* C14: after save(pageId, B) every item that carried a valid id is stored
\* under that id in pageId, whether the row existed or not (the row holds
\* the last item sent with the id); every item without one is stored under
\* an id of its own that no row had and no other item got; and the page
\* holds exactly those rows, none of B's removed by the trailing delete.
C14_SaveIds ==
    [][SaveDone =>
          LET B == req.blocks
              sent == {i \in 1..Len(B) : B[i].id # NoId}
              new == (1..Len(B)) \ sent
          IN  /\ \A i \in sent :
                     /\ B[i].id \in BlocksOf(blocks', req.pageId)
                     /\ LastWithId(B, i) => HoldsItem(blocks', B[i].id, req.pageId, B, i)
              /\ \E f \in [new -> DOMAIN blocks' \ DOMAIN blocks] :
                     /\ \A i, j \in new : i # j => f[i] # f[j]
                     /\ \A i \in new : /\ f[i] >= nextBlockId
                                        /\ f[i] \notin {B[k].id : k \in sent}
                                        /\ HoldsItem(blocks', f[i], req.pageId, B, i)
                     /\ BlocksOf(blocks', req.pageId) =
                            {B[i].id : i \in sent} \cup {f[i] : i \in new}]_vars

\* A save has answered two blocks: the first under the id generated last,
\* the second under an older id, which it therefore carried
C14_Witness ==
    /\ resp.op = "save" /\ resp.status = 200
    /\ Len(resp.blocks) = 2
    /\ resp.blocks[1].id = nextBlockId - 1
    /\ resp.blocks[2].id < resp.blocks[1].id
    /\ resp.blocks[1].order = 0 /\ resp.blocks[2].order = 1

----------------------------------------------------------------------------
(* Two saves of one page in flight at once.  Each handler checks ownership *)
(* and builds its operations; Block.bulkWrite then sends them to the store *)
(* as one ordered batch, which the store applies one operation at a time,  *)
(* without a transaction: operations of two batches interleave.            *)

ConcUsers == {"u1"}
ConcPagePool == {1}
ConcBlockPool == {1, 2, 3}

\* The operations array of one save, trailing delete included
Operations(pageId, B, next) ==
    LET fresh == FreshIds(B, next)
    IN  [i \in 1..Len(B) |-> SyncOp(pageId, B, fresh, i)]
        \o <<[kind |-> "deleteMany", incoming |-> IncomingIds(B, fresh)]>>

\* One operation of a batch applied by the store
ApplyOperation(bs, pageId, op) ==
    IF op.kind = "deleteMany" THEN SyncDelete(bs, pageId, op.incoming)
    ELSE ApplyWrite(bs, op)

\* Two editors press save on the same page at the same time
ConcurrentSaveRequests(users, items, maxSave, maxBlocks) ==
    LET snapshots == SeqsUpTo(items, maxSave)
        pairs == {pr \in snapshots \X snapshots :
                     nextBlockId + NewIdsIn(pr[1]) + NewIdsIn(pr[2]) - 1 <= maxBlocks}
    IN  {[op |-> "saves", user |-> u, pageId |-> p, snapshots |-> pr] :
            u \in users, p \in KnownPageIds, pr \in pairs}

\* Both handlers pass the ownership check and build their operations
syncPageBlocksBoth ==
    /\ req.op = "saves"
    /\ IF ~OwnsPage(req.user, req.pageId)
       THEN /\ resp' = Resp("saves", 404)
            /\ req' = NoReq
            /\ UNCHANGED nextBlockId
       ELSE LET B1 == req.snapshots[1]
                B2 == req.snapshots[2]
            IN  /\ req' = [op |-> "bulkWrite", pageId |-> req.pageId,
                           snapshots |-> req.snapshots,
                           operations |-> <<Operations(req.pageId, B1, nextBlockId),
                                            Operations(req.pageId, B2, nextBlockId + NewIdsIn(B1))>>,
                           order |-> <<>>]
                /\ nextBlockId' = nextBlockId + NewIdsIn(B1) + NewIdsIn(B2)
                /\ UNCHANGED resp
    /\ UNCHANGED <<pages, blocks, nextPageId>>
    /\ UNCHANGED browser

\* The store applies the next operation of one of the two batches; when
\* both batches are through, the handlers answer.  order lists the batches
\* in the order their last operation ran.
bulkWriteOperation ==
    /\ req.op = "bulkWrite"
    /\ \E k \in 1..2 :
          /\ req.operations[k] # <<>>
          /\ blocks' = ApplyOperation(blocks, req.pageId, Head(req.operations[k]))
          /\ LET rest == [req.operations EXCEPT ![k] = Tail(@)]
                 order == IF rest[k] = <<>> THEN Append(req.order, k) ELSE req.order
             IN  IF rest[1] = <<>> /\ rest[2] = <<>>
                 THEN /\ resp' = [op |-> "saves", status |-> 200,
                                   pageId |-> req.pageId,
                                   snapshots |-> req.snapshots, order |-> order]
                      /\ req' = NoReq
                 ELSE /\ req' = [req EXCEPT !.operations = rest, !.order = order]
                      /\ UNCHANGED resp
    /\ UNCHANGED <<pages, nextPageId, nextBlockId>>
    /\ UNCHANGED browser

RequestConc ==
    Arrive(CreatePageRequests(ConcUsers, Cardinality(ConcPagePool))
           \cup ConcurrentSaveRequests(ConcUsers,
                    Items({NoId} \cup KnownBlockIds, TextPayloads(Texts), {0}),
                    MaxSave, Cardinality(ConcBlockPool)))

NextConc ==
    \/ RequestConc
    \/ Reply
    \/ createPage
    \/ syncPageBlocksBoth
    \/ bulkWriteOperation

SpecConc == Init /\ [][NextConc]_vars

----------------------------------------------------------------------------
(* C15  Last writer wins under concurrency                                 *)

\* C15: once two concurrent saves of a page have both completed, the page
\* holds exactly the snapshot of the save whose batch finished last: its
\* (type, content) sequence at orders 0..n-1, nothing of the other save
\* mixed in and nothing of it missing.  (Snapshots whose valid ids are
\* pairwise distinct, so that each names n rows.)
C15_LastWriterWins ==
    (/\ resp.op = "saves" /\ resp.status = 200
     /\ DistinctIds(resp.snapshots[1]) /\ DistinctIds(resp.snapshots[2]))
    => \A listing \in StoredListings(blocks, resp.pageId) :
           TypeContentOrder(listing) = Snapshot(resp.snapshots[resp.order[2]])

----------------------------------------------------------------------------
(* Import: a public source page with about ImportCap blocks, one target    *)

ImportUsers == {"u1", "u2"}

\* The source page of the claim's example holds LargeSource blocks to clone
LargeSource == 70

\* How many blocks the source page holds at the start: around the cap and
\* well above it (one of them is a page reference, which import does not
\* clone)
SourceSizes == {ImportCap, ImportCap + 1, ImportCap + 2, LargeSource + 1}

\* Room for one import of the largest source
ImportBlockLimit == 2 * LargeSource + 1

\* The source page as n earlier creations left it: block x was stored at
\* order n - x, so the listing by order runs against the ids; the block of
\* order 0 is a page reference, the others alternate two texts.
SourceBlocks(n, sourcePageId, targetPageId) ==
    [x \in 1..n |->
        IF x = n
        THEN [pageId |-> sourcePageId, type |-> "page",
              content |-> PageContent(Ref("oid", targetPageId), "Untitled"), order |-> 0]
        ELSE [pageId |-> sourcePageId, type |-> "paragraph",
              content |-> TextContent(IF x % 2 = 0 THEN "a" ELSE "b"), order |-> n - x]]

\* Page 1 of u2, public and titled, holds the source blocks; page 2 of u1
\* is new and empty.
InitImport ==
    /\ \E n \in SourceSizes :
         /\ blocks = SourceBlocks(n, 1, 2)
         /\ nextBlockId = n + 1
    /\ pages = <<[NewPage("u2", NoPage, "Doc") EXCEPT !.isPublic = TRUE],
                 NewPage("u1", NoPage, "Untitled")>>
    /\ nextPageId = 3
    /\ req = NoReq
    /\ resp = NoResp
    /\ BrowserIdle

\* The owner of a page with fewer than two blocks adds one, at the end or
\* at an order of its choice; the source page is published and withdrawn;
\* anybody imports any page into any page.
RequestImport ==
    Arrive({r \in CreateBlockRequests(ImportUsers, {"a"}, {<<>>, <<MaxSave + 1>>},
                                      ImportBlockLimit) :
               OwnsPage(r.user, r.pageId)
               /\ Cardinality(BlocksOf(blocks, r.pageId)) < 2}
           \cup {r \in VisibilityRequests(ImportUsers) : r.pageId = 1}
           \cup ImportRequests(ImportUsers, ImportBlockLimit))

NextImport ==
    \/ RequestImport
    \/ Reply
    \/ createBlock
    \/ visibilityHandler
    \/ importBlocks

SpecImport == InitImport /\ [][NextImport]_vars

ImportDone == req.op = "import" /\ resp'.status = 200

\* The blocks of page p that are not page references
NonPage(bs, p) == {x \in DOMAIN bs : bs[x].pageId = p /\ bs[x].type # "page"}

\* The highest order on page p, -1 on an empty page
HighestOrder(bs, p) ==
    LET orders == {bs[x].order : x \in {y \in DOMAIN bs : bs[y].pageId = p}}
    IN  IF orders = {} THEN -1 ELSE CHOOSE o \in orders : \A o2 \in orders : o2 <= o

Inserted == DOMAIN blocks' \ DOMAIN blocks

C17_ImportFrame ==
    [][ImportDone =>
         /\ \A x \in DOMAIN blocks : x \in DOMAIN blocks' /\ blocks'[x] = blocks[x]
         /\ pages'[req.sourcePageId] = pages[req.sourcePageId]
         /\ Inserted # {}
         /\ \A x \in Inserted : x \notin KnownBlockIds]_vars

\* An import has just copied all 49 clonable blocks of the 50-block source
\* into a target that held two blocks: source and older target blocks are
\* still there next to the clones.
C17_Witness ==
    /\ resp.op = "import" /\ resp.status = 200
    /\ Cardinality(BlocksOf(blocks, 1)) = ImportCap
    /\ Cardinality(NonPage(blocks, 1)) = ImportCap - 1
    /\ Cardinality(BlocksOf(blocks, 2)) = ImportCap + 1
    /\ nextBlockId = 2 * ImportCap + 2

\* The import request in hand names a source that cannot be imported: the
\* target itself, a page that does not exist, a page that is not public, or
\* a page without any block other than page references.
Unimportable ==
    /\ req.op = "import"
    /\ \/ req.sourcePageId = req.pageId
       \/ req.sourcePageId \notin DOMAIN pages
       \/ ~pages[req.sourcePageId].isPublic
       \/ NonPage(blocks, req.sourcePageId) = {}

----------------------------------------------------------------------------
(* Parent links: every operation on pages and blocks, pages three deep     *)

LinkUsers == {"u1"}
LinkPagePool == {1, 2, 3}
LinkBlockPool == {1, 2, 3}

\* The first page is renamed and published; a save sends back what the
\* editor loaded or one new paragraph.
RequestLinks ==
    Arrive(CreatePageRequests(LinkUsers, Cardinality(LinkPagePool))
           \cup CreatePageBlockRequests(LinkUsers, {NoId}, Cardinality(LinkPagePool),
                                        Cardinality(LinkBlockPool))
           \cup {r \in RenameRequests(LinkUsers, {"Doc"}) : r.pageId = 1}
           \cup {r \in VisibilityRequests(LinkUsers) : r.pageId = 1}
           \cup ResaveRequests(LinkUsers)
           \cup SaveRequests(LinkUsers, Items({NoId}, TextPayloads({"a"}), {0}),
                             MaxSave - 1, Cardinality(LinkBlockPool))
           \cup ImportRequests(LinkUsers, Cardinality(LinkBlockPool))
           \cup DeletePageRequests(LinkUsers))

NextLinks ==
    \/ RequestLinks
    \/ Reply
    \/ createPage
    \/ createPageBlock
    \/ updatePage
    \/ visibilityHandler
    \/ syncPageBlocks
    \/ importBlocks
    \/ deletePage

SpecLinks == Init /\ [][NextLinks]_vars

\* The page reached from p by following parentPageId n times, NoPage when
\* the walk leaves the stored pages first
RECURSIVE AncestorAt(_, _, _)
AncestorAt(ps, p, n) ==
    IF n = 0 THEN p
    ELSE LET below == AncestorAt(ps, p, n - 1)
         IN  IF below \in DOMAIN ps THEN ps[below].parentPageId ELSE NoPage

----------------------------------------------------------------------------
(* Titles: a parent page, its child pages, renames and reads               *)

TitleUsers == {"u1"}
TitlePagePool == {1, 2}
TitleBlockPool == {1, 2}

\* What the title input sends: a name, or nothing once it is cleared
Titles == {"", "Doc"}

RequestTitle ==
    Arrive(CreatePageRequests(TitleUsers, 1)
           \cup CreatePageBlockRequests(TitleUsers, {NoId}, Cardinality(TitlePagePool),
                                        Cardinality(TitleBlockPool))
           \cup RenameRequests(TitleUsers, Titles)
           \cup VisibilityRequests(TitleUsers)
           \cup SaveRequests(TitleUsers,
                    Items({NoId} \cup KnownBlockIds, PagePayloads(KnownPageIds, "Old"), {0}),
                    MaxSave - 1, Cardinality(TitleBlockPool))
           \cup ReadRequests(TitleUsers, {"all"}, {NullParam})
           \cup PublicReadRequests("publicRead", {"all"}, {NullParam})
           \cup PublicReadRequests("publicReadUnpaged", {"all"}, {NullParam}))

NextTitle ==
    \/ RequestTitle
    \/ Reply
    \/ createPage
    \/ createPageBlock
    \/ updatePage
    \/ visibilityHandler
    \/ syncPageBlocks
    \/ getPage
    \/ publicGET
    \/ publicGETUnpaged

SpecTitle == Init /\ [][NextTitle]_vars

\* A read of either view has answered with blocks in this step
TitleRead ==
    /\ req.op \in {"read", "publicRead", "publicReadUnpaged"}
    /\ resp'.status = 200

\* The returned page references whose target page exists
ReturnedRefs ==
    {i \in 1..Len(resp'.blocks) :
        IsPageRef(resp'.blocks[i]) /\ RefTarget(resp'.blocks[i]) \in DOMAIN pages}

\* C20 as stated: every page reference a read returns carries the title
\* its target page has at that moment.
C20_LiveTitleAsClaimed ==
    [][TitleRead =>
         \A i \in ReturnedRefs :
             resp'.blocks[i].content.title = pages[RefTarget(resp'.blocks[i])].title]_vars

\* C20: every page reference a read (owner or public) returns carries the
\* title its target page has at that moment, or "Untitled" when that title
\* is the empty string, whatever title the block was stored with.
C20_LiveTitle ==
    [][TitleRead =>
         \A i \in ReturnedRefs :
             LET live == pages[RefTarget(resp'.blocks[i])].title
             IN  resp'.blocks[i].content.title = IF live = "" THEN "Untitled" ELSE live]_vars

\* A read has returned a page reference under the title "Doc" while the
\* stored block still carries another title: the child was renamed and the
\* parent not saved since.
C20_Witness ==
    /\ resp.op \in {"read", "publicRead"} /\ resp.status = 200
    /\ \E i \in 1..Len(resp.blocks) :
         /\ IsPageRef(resp.blocks[i])
         /\ resp.blocks[i].content.title = "Doc"
         /\ resp.blocks[i].id \in DOMAIN blocks
         /\ blocks[resp.blocks[i].id].content.title # "Doc"
         /\ pages[RefTarget(resp.blocks[i])].title = "Doc"

----------------------------------------------------------------------------
(* Mark Engine: src/utils/textStyles.js, called by the text block editor   *)
(*                                                                         *)
(* A mark is an object { type, start, end }.  The functions receive and    *)
(* return arrays of references to such objects, so the heap is part of     *)
(* what they compute: an operator takes the heap h and a list ms of        *)
(* references and returns the heap and the list after the call.            *)

MaxPos == 3         \* largest position a selection reaches
MaxText == 2        \* longest text of a block
MaxMarks == 2       \* longest mark list the editor starts from

MarkTypes == {"bold", "italic"}
Chars == {"a", "b"}

Mark(type, start, end) == [type |-> type, start |-> start, end |-> end]

\* The marks a list of references stands for
Deref(h, ms) == [i \in 1..Len(ms) |-> h[ms[i]]]

Max2(a, b) == IF a > b THEN a ELSE b

\* No sorting
SortNone(h, s) == s

\* Array.prototype.sort((a, b) => a.start - b.start): a stable sort, so an
\* element goes behind those sorted before it that do not start later.
RECURSIVE SortByStart(_, _)
SortByStart(h, s) ==
    IF s = <<>> THEN <<>>
    ELSE LET front == SortByStart(h, SubSeq(s, 1, Len(s) - 1))
             x == s[Len(s)]
             k == Cardinality({i \in 1..Len(front) : h[front[i]].start <= h[x].start})
         IN  SubSeq(front, 1, k) \o <<x>> \o SubSeq(front, k + 1, Len(front))

\* No merging: every sorted mark is returned
MergeLoopNone(h, sorted, i, current, merged) == [heap |-> h, marks |-> sorted]

\* The merge loop of applyMark from index i on: current.end = ... writes
\* into the object that current refers to.
RECURSIVE MergeLoop(_, _, _, _, _)
MergeLoop(h, sorted, i, current, merged) ==
    IF i > Len(sorted) THEN [heap |-> h, marks |-> Append(merged, current)]
    ELSE LET next == sorted[i]
         IN  IF h[next].start <= h[current].end
             THEN MergeLoop([h EXCEPT ![current].end = Max2(h[current].end, h[next].end)],
                            sorted, i + 1, current, merged)
             ELSE MergeLoop(h, sorted, i + 1, next, Append(merged, current))

applyMark(h, ms, type, start, end) ==
    IF start >= end THEN [heap |-> h, marks |-> ms]
    ELSE LET other(r) == h[r].type # type
             same(r) == h[r].type = type
             otherMarks == SelectSeq(ms, other)
             h1 == Append(h, Mark(type, start, end))
             sameTypeMarks == Append(SelectSeq(ms, same), Len(h1))
             sorted == SortByStart(h1, sameTypeMarks)
             out == MergeLoop(h1, sorted, 2, sorted[1], <<>>)
         IN  [heap |-> out.heap, marks |-> otherMarks \o out.marks]

\* A loop dropping every mark of the type that touches the range
RECURSIVE RemoveLoopDropping(_, _, _, _, _, _, _)
RemoveLoopDropping(h, ms, i, type, start, end, result) ==
    IF i > Len(ms) THEN [heap |-> h, marks |-> result]
    ELSE IF h[ms[i]].type = type /\ ~(h[ms[i]].end <= start \/ h[ms[i]].start >= end)
    THEN RemoveLoopDropping(h, ms, i + 1, type, start, end, result)
    ELSE RemoveLoopDropping(h, ms, i + 1, type, start, end, Append(result, ms[i]))

\* The loop of removeMark from index i on; { ...mark, end: start } is a
\* new object.
RECURSIVE RemoveLoop(_, _, _, _, _, _, _)
RemoveLoop(h, ms, i, type, start, end, result) ==
    IF i > Len(ms) THEN [heap |-> h, marks |-> result]
    ELSE LET mark == ms[i]
             m == h[mark]
         IN  IF m.type # type
             THEN RemoveLoop(h, ms, i + 1, type, start, end, Append(result, mark))
             ELSE IF m.end <= start \/ m.start >= end
             THEN RemoveLoop(h, ms, i + 1, type, start, end, Append(result, mark))
             ELSE IF m.start >= start /\ m.end <= end
             THEN RemoveLoop(h, ms, i + 1, type, start, end, result)
             ELSE LET h1 == IF m.start < start THEN Append(h, [m EXCEPT !.end = start]) ELSE h
                      r1 == IF m.start < start THEN Append(result, Len(h1)) ELSE result
                      h2 == IF m.end > end THEN Append(h1, [m EXCEPT !.start = end]) ELSE h1
                      r2 == IF m.end > end THEN Append(r1, Len(h2)) ELSE r1
                  IN  RemoveLoop(h2, ms, i + 1, type, start, end, r2)

removeMark(h, ms, type, start, end) ==
    IF start >= end THEN [heap |-> h, marks |-> ms]
    ELSE RemoveLoop(h, ms, 1, type, start, end, <<>>)

\* while (start < oldText.length && start < newText.length && oldText[start] === newText[start])
ChangeStart(oldText, newText) ==
    Max({k \in 0..Min2(Len(oldText), Len(newText)) :
            \A i \in 1..k : oldText[i] = newText[i]})

\* How many characters the second loop steps back from both ends
ChangeTail(oldText, newText, start) ==
    Max({t \in 0..Min2(Len(oldText) - start, Len(newText) - start) :
            \A j \in 1..t : oldText[Len(oldText) - j + 1] = newText[Len(newText) - j + 1]})

mapPointAfterDeletion(p, start, deletedLength) ==
    IF p <= start THEN p
    ELSE IF p >= start + deletedLength THEN p - deletedLength
    ELSE start

\* The map of step 3 without its filter
RECURSIVE DeletionLoopUnfiltered(_, _, _, _, _, _)
DeletionLoopUnfiltered(h, ms, i, start, deletedLength, result) ==
    IF i > Len(ms) THEN [heap |-> h, marks |-> result]
    ELSE LET m == h[ms[i]]
             h1 == Append(h, [m EXCEPT
                       !.start = mapPointAfterDeletion(m.start, start, deletedLength),
                       !.end = mapPointAfterDeletion(m.end, start, deletedLength)])
         IN  DeletionLoopUnfiltered(h1, ms, i + 1, start, deletedLength,
                                    Append(result, Len(h1)))

\* marks.map(mark => ({ ...mark, start: ..., end: ... })).filter(m => m.end > m.start)
RECURSIVE DeletionLoop(_, _, _, _, _, _)
DeletionLoop(h, ms, i, start, deletedLength, result) ==
    IF i > Len(ms) THEN [heap |-> h, marks |-> result]
    ELSE LET m == h[ms[i]]
             moved == [m EXCEPT !.start = mapPointAfterDeletion(m.start, start, deletedLength),
                                !.end = mapPointAfterDeletion(m.end, start, deletedLength)]
             h1 == Append(h, moved)
         IN  DeletionLoop(h1, ms, i + 1, start, deletedLength,
                          IF moved.end > moved.start THEN Append(result, Len(h1)) ELSE result)

\* The map of step 4
RECURSIVE InsertionLoop(_, _, _, _, _, _)
InsertionLoop(h, ms, i, start, insertedLength, result) ==
    IF i > Len(ms) THEN [heap |-> h, marks |-> result]
    ELSE LET m == h[ms[i]]
         IN  IF start <= m.start
             THEN LET h1 == Append(h, [m EXCEPT !.start = m.start + insertedLength,
                                               !.end = m.end + insertedLength])
                  IN  InsertionLoop(h1, ms, i + 1, start, insertedLength, Append(result, Len(h1)))
             ELSE IF start < m.end
             THEN LET h1 == Append(h, [m EXCEPT !.end = m.end + insertedLength])
                  IN  InsertionLoop(h1, ms, i + 1, start, insertedLength, Append(result, Len(h1)))
             ELSE InsertionLoop(h, ms, i + 1, start, insertedLength, Append(result, ms[i]))

adjustMarksForChange(h, ms, oldText, newText) ==
    IF oldText = newText THEN [heap |-> h, marks |-> ms]
    ELSE LET start == ChangeStart(oldText, newText)
             tail == ChangeTail(oldText, newText, start)
             oldEnd == Len(oldText) - tail
             newEnd == Len(newText) - tail
             deletedLength == oldEnd - start
             insertedLength == newEnd - start
             afterDeletion == IF deletedLength > 0
                              THEN DeletionLoop(h, ms, 1, start, deletedLength, <<>>)
                              ELSE [heap |-> h, marks |-> ms]
         IN  IF deletedLength = 0 /\ insertedLength = 0 THEN [heap |-> h, marks |-> ms]
             ELSE IF insertedLength > 0
             THEN InsertionLoop(afterDeletion.heap, afterDeletion.marks, 1,
                                start, insertedLength, <<>>)
             ELSE afterDeletion

----------------------------------------------------------------------------
(* The text block editor calling the Mark Engine                           *)

\* All texts of at most n characters
TextsUpTo(n) == SeqsUpTo(Chars, n)

\* Selections and marks within the first MaxPos positions
Ranges == {r \in (0..MaxPos) \X (0..MaxPos) : r[1] < r[2]}
AllMarks == {Mark(t, r[1], r[2]) : t \in MarkTypes, r \in Ranges}

\* Ctrl+B / Ctrl+I on a selection, as the call it leads to
StyleRequests ==
    {[op |-> f, type |-> t, start |-> r[1], end |-> r[2]] :
        f \in {"applyMark", "removeMark"}, t \in MarkTypes, r \in Ranges}

\* The user types or pastes `inserted` at position p of the text
InsertRequests ==
    UNION {{[op |-> "handleChange", p |-> p, inserted |-> ins,
             newText |-> SubSeq(localText, 1, p) \o ins
                         \o SubSeq(localText, p + 1, Len(localText))] :
               p \in 0..Len(localText)} :
           ins \in {t \in TextsUpTo(MaxText - Len(localText)) : t # <<>>}}

\* Any other change of the text: deletion, replacement of a selection
ChangeRequests ==
    {[op |-> "handleChange", p |-> -1, inserted |-> <<>>, newText |-> t] :
        t \in {x \in TextsUpTo(MaxText) : Len(x) <= Len(localText)}}

\* What the editor keeps of the heap after a call: the objects of the list
\* it passed in, then those the result added, under references in that
\* sequence.
Kept(h, args, result) ==
    LET added(r) == \A i \in 1..Len(args) : args[i] # r
        news == SelectSeq(result, added)
        ref(r) == IF \E i \in 1..Len(args) : args[i] = r
                  THEN CHOOSE i \in 1..Len(args) : args[i] = r
                  ELSE Len(args) + (CHOOSE i \in 1..Len(news) : news[i] = r)
    IN  [heap |-> Deref(h, args) \o Deref(h, news),
         args |-> [i \in 1..Len(args) |-> i],
         marks |-> [i \in 1..Len(result) |-> ref(result[i])]]

\* setLocalMarks(newMarks) after a call that returned out for localMarks
SetLocalMarks(out) ==
    LET kept == Kept(out.heap, localMarks, out.marks)
    IN  /\ heap' = kept.heap
        /\ argMarks' = kept.args
        /\ localMarks' = kept.marks

\* The call finished: what was asked stays readable in resp
Returned == [op |-> req.op, status |-> 0, call |-> req]

callApplyMark ==
    /\ req.op = "applyMark"
    /\ SetLocalMarks(applyMark(heap, localMarks, req.type, req.start, req.end))
    /\ resp' = Returned
    /\ req' = NoReq
    /\ UNCHANGED <<pages, blocks, nextPageId, nextBlockId, localText, hook, awaiting>>

callRemoveMark ==
    /\ req.op = "removeMark"
    /\ SetLocalMarks(removeMark(heap, localMarks, req.type, req.start, req.end))
    /\ resp' = Returned
    /\ req' = NoReq
    /\ UNCHANGED <<pages, blocks, nextPageId, nextBlockId, localText, hook, awaiting>>

handleChange ==
    /\ req.op = "handleChange"
    /\ SetLocalMarks(adjustMarksForChange(heap, localMarks, localText, req.newText))
    /\ localText' = req.newText
    /\ resp' = Returned
    /\ req' = NoReq
    /\ UNCHANGED <<pages, blocks, nextPageId, nextBlockId, hook, awaiting>>

\* A request of the editor arrives while it is idle
Edit(requests) ==
    /\ req = NoReq
    /\ resp = NoResp
    /\ \E r \in requests : req' = r
    /\ UNCHANGED <<pages, blocks, nextPageId, nextBlockId, resp, browser>>

\* The handler has returned and the component rendered again: the list
\* passed to the call is no longer referenced by anything.
EditorReturn ==
    /\ req = NoReq
    /\ resp # NoResp
    /\ resp' = NoResp
    /\ heap' = Deref(heap, localMarks)
    /\ localMarks' = [i \in 1..Len(localMarks) |-> i]
    /\ argMarks' = <<>>
    /\ UNCHANGED <<pages, blocks, nextPageId, nextBlockId, req, localText, hook, awaiting>>

ServerIdle ==
    /\ pages = <<>>
    /\ blocks = <<>>
    /\ nextPageId = 1
    /\ nextBlockId = 1
    /\ req = NoReq
    /\ resp = NoResp

\* The editor opens on a block with any text and any list of marks
InitMarks ==
    /\ ServerIdle
    /\ HookIdle
    /\ heap \in SeqsUpTo(AllMarks, MaxMarks)
    /\ localMarks = [i \in 1..Len(heap) |-> i]
    /\ argMarks = <<>>
    /\ localText \in TextsUpTo(MaxText)

RequestMarks == Edit(StyleRequests \cup InsertRequests \cup ChangeRequests)

\* One call of the Mark Engine on the list the editor opened with
NextMarks ==
    \/ RequestMarks
    \/ callApplyMark
    \/ callRemoveMark
    \/ handleChange

SpecMarks == InitMarks /\ [][NextMarks]_vars

\* The editor opens on an empty block and is used for any number of calls
InitEditor ==
    /\ ServerIdle
    /\ HookIdle
    /\ heap = <<>>
    /\ localMarks = <<>>
    /\ argMarks = <<>>
    /\ localText = <<>>

RequestEditor == Edit(StyleRequests \cup InsertRequests \cup ChangeRequests)

NextEditor ==
    \/ RequestEditor
    \/ EditorReturn
    \/ callApplyMark
    \/ callRemoveMark
    \/ handleChange

SpecEditor == InitEditor /\ [][NextEditor]_vars

\* The marks of the editor as values
Now == Deref(heap, localMarks)
After == Deref(heap', localMarks')

\* C21: applyMark is idempotent: applying the type to the range once more
\* on the list a call of applyMark returned yields that same list of marks
\* (and leaves the list it was given as it was).
C21_Idempotent ==
    [][req.op = "applyMark" =>
         LET again == applyMark(heap', localMarks', req.type, req.start, req.end)
         IN  /\ Deref(again.heap, again.marks) = After
             /\ Deref(again.heap, localMarks') = After]_vars

\* applyMark has returned a list in which the new range was merged with
\* marks of its type, next to a mark of the other type.
C21_Witness ==
    /\ resp.op = "applyMark"
    /\ Len(argMarks) = MaxMarks
    /\ Len(localMarks) = MaxMarks
    /\ \E i \in 1..Len(localMarks) : Now[i].type # resp.call.type
    /\ \E i \in 1..Len(localMarks) :
         /\ Now[i].type = resp.call.type
         /\ Now[i].end - Now[i].start > resp.call.end - resp.call.start

\* The marks of type t in a list, in the sequence of the list
OfType(ms, t) == LET is(m) == m.type = t IN SelectSeq(ms, is)
NotOfType(ms, t) == LET isNot(m) == m.type # t IN SelectSeq(ms, isNot)

\* The positions the marks of type t cover
Covered(ms, t) ==
    UNION {ms[i].start..(ms[i].end - 1) : i \in {j \in 1..Len(ms) : ms[j].type = t}}

\* C22: after applyMark(m, t, s, e) with s < e the marks of type t are
\* sorted by start, each starts after the end of the one before it (no
\* overlap, no adjacency), and together they cover exactly what the marks
\* of type t of m covered plus [s, e); the marks of the other types are
\* returned as they were, in the sequence they had.
C22_MergeCorrect ==
    [][req.op = "applyMark" =>
         LET merged == OfType(After, req.type)
         IN  /\ \A i \in 1..(Len(merged) - 1) : merged[i + 1].start > merged[i].end
             /\ Covered(After, req.type)
                  = Covered(Now, req.type) \cup (req.start..(req.end - 1))
             /\ NotOfType(After, req.type) = NotOfType(Now, req.type)]_vars

\* A range was applied right behind a mark of its type that starts at 0:
\* one mark from 0 to the end of the range is all that is left.
C22_Witness ==
    /\ resp.op = "applyMark"
    /\ resp.call.start > 0
    /\ Len(argMarks) = 1
    /\ heap[argMarks[1]].type = resp.call.type
    /\ Now = <<Mark(resp.call.type, 0, resp.call.end)>>

\* What is left of mark m when type t is taken off [s, e)
Remainders(m, t, s, e) ==
    IF m.type # t \/ m.end <= s \/ m.start >= e THEN <<m>>
    ELSE (IF m.start < s THEN <<Mark(t, m.start, s)>> ELSE <<>>)
         \o (IF m.end > e THEN <<Mark(t, e, m.end)>> ELSE <<>>)

RECURSIVE Concat(_)
Concat(ss) == IF ss = <<>> THEN <<>> ELSE ss[1] \o Concat(Tail(ss))

\* C23: removeMark(m, t, s, e) with s < e keeps every mark of another type
\* and every mark of type t disjoint from [s, e) as it is, drops every mark
\* of type t contained in [s, e), and puts in the place of every other mark
\* of type t its non-empty remainders [mark.start, s) and [e, mark.end);
\* the coverage of type t afterwards is the old coverage minus [s, e).
C23_SplitCorrect ==
    [][req.op = "removeMark" =>
         /\ After = Concat([i \in 1..Len(Now) |->
                               Remainders(Now[i], req.type, req.start, req.end)])
         /\ Covered(After, req.type)
              = Covered(Now, req.type) \ (req.start..(req.end - 1))
         /\ NotOfType(After, req.type) = NotOfType(Now, req.type)]_vars

\* The middle of the one mark [0, MaxPos) was taken off: two marks are
\* left, before and behind the range.
C23_Witness ==
    /\ resp.op = "removeMark"
    /\ Deref(heap, argMarks) = <<Mark(resp.call.type, 0, MaxPos)>>
    /\ resp.call.start > 0 /\ resp.call.end < MaxPos
    /\ Now = <<Mark(resp.call.type, 0, resp.call.start),
               Mark(resp.call.type, resp.call.end, MaxPos)>>

\* Mark m after k characters were inserted at position p
ShiftedFor(m, p, k) ==
    IF m.start >= p THEN [m EXCEPT !.start = m.start + k, !.end = m.end + k]
    ELSE IF p < m.end THEN [m EXCEPT !.end = m.end + k]
    ELSE m

\* C24: when newText is oldText with a non-empty string inserted at position
\* p, adjustMarksForChange moves every mark that starts at or after p to
\* the right by the inserted length, lengthens every mark that straddles p
\* (start < p < end) by that length at its end, and leaves every mark that
\* ends at or before p as it is.
C24_InsertAdjust ==
    [][(req.op = "handleChange" /\ req.p >= 0) =>
         After = [i \in 1..Len(Now) |-> ShiftedFor(Now[i], req.p, Len(req.inserted))]]_vars

\* C25: in every mark list the editor reaches from the empty list by calls
\* of applyMark, removeMark (start < end) and adjustMarksForChange on
\* successive texts, every mark has start < end and the marks of one type
\* stand in ascending order of start without overlapping one another.
\* (Marks of different types are not constrained.)
C25_PerTypeInvariant ==
    /\ \A i \in 1..Len(Now) : Now[i].start < Now[i].end
    /\ \A t \in MarkTypes :
         \A i \in 1..(Len(OfType(Now, t)) - 1) :
            /\ OfType(Now, t)[i].start < OfType(Now, t)[i + 1].start
            /\ OfType(Now, t)[i].end <= OfType(Now, t)[i + 1].start

\* After a change of the text the list holds two marks of one type and a
\* mark of the other type that overlaps one of them.
C25_Witness ==
    /\ resp.op = "handleChange"
    /\ \E t \in MarkTypes : Len(OfType(Now, t)) >= 2
    /\ \E i \in 1..Len(Now), j \in 1..Len(Now) :
         /\ Now[i].type # Now[j].type
         /\ Now[i].start < Now[j].end /\ Now[j].start < Now[i].end

\* C26: a call of applyMark, removeMark or adjustMarksForChange leaves the
\* list it was given alone: after the call that list holds the same marks
\* with the same start and end values as before the call.
C26_Pure ==
    [][req.op \in {"applyMark", "removeMark", "handleChange"} =>
         Deref(heap', argMarks') = Now]_vars

\* C29: in every state reached by completed operations, every page with a
\* parent is the target of at least one page-reference block stored in
\* that parent: no save, block deletion or page-block creation leaves a
\* child page that no block of its parent refers to.
C29_ChildReferenced ==
    \A p \in DOMAIN pages :
        pages[p].parentPageId # NoPage =>
            ParentRefs(pages[p].parentPageId, p) # {}

----------------------------------------------------------------------------
(* A write racing with the deletion of its page or of an ancestor.  Each   *)
(* handler is a chain of awaited store calls; between two awaits the other *)
(* handler may run.  The store applies each call as one step.              *)

RaceUsers == {"u1"}
RacePagePool == {1, 2, 3}
RaceBlockPool == {1, 2, 3}

\* POST /api/blocks or POST /api/blocks/page for page w, in flight together
\* with DELETE /api/pages/d
RaceRequests(users, maxPages, maxBlocks) ==
    LET writes == CreateBlockRequests(users, {"a"}, {<<>>}, maxBlocks)
                  \cup CreatePageBlockRequests(users, {NoId}, maxPages, maxBlocks)
    IN  {[op |-> "race", write |-> w, delete |-> d] :
            w \in writes, d \in DeletePageRequests(users)}

WritePage(w) == IF w.op = "createBlock" THEN w.pageId ELSE w.parentPageId

\* Both handlers have been entered; neither has reached its first store call
raceHandlers ==
    /\ req.op = "race"
    /\ req' = [op |-> "racing", write |-> req.write, delete |-> req.delete,
               w |-> "Page.findOne", d |-> "Page.findOne",
               order |-> 0, childId |-> NoPage, childTitle |-> "",
               pagesToDelete |-> {}, parentPageId |-> NoPage,
               wStatus |-> 0, dStatus |-> 0]
    /\ UNCHANGED <<pages, blocks, nextPageId, nextBlockId, resp>>
    /\ UNCHANGED browser

\* The next store call of createBlock / createPageBlock
writeStep ==
    /\ req.op = "racing"
    /\ LET w == req.write
           p == WritePage(w)
       IN  CASE req.w = "Page.findOne" ->
                  /\ req' = IF OwnsPage(w.user, p)
                            THEN [req EXCEPT !.w = IF w.op = "createBlock"
                                                   THEN "Block.getNextOrder"
                                                   ELSE "Page.create"]
                            ELSE [req EXCEPT !.w = "done", !.wStatus = 404]
                  /\ UNCHANGED <<pages, blocks, nextPageId, nextBlockId>>
             [] req.w = "Page.create" ->
                  LET childTitle == TitleOr(w.title, "Untitled")
                  IN  /\ pages' = With(pages, nextPageId, NewPage(w.user, p, childTitle))
                      /\ nextPageId' = nextPageId + 1
                      /\ req' = [req EXCEPT !.w = "Block.getNextOrder",
                                            !.childId = nextPageId,
                                            !.childTitle = childTitle]
                      /\ UNCHANGED <<blocks, nextBlockId>>
             [] req.w = "Block.getNextOrder" ->
                  /\ req' = [req EXCEPT !.w = "Block.create",
                                        !.order = getNextOrder(blocks, p)]
                  /\ UNCHANGED <<pages, blocks, nextPageId, nextBlockId>>
             [] req.w = "Block.create" ->
                  /\ blocks' = With(blocks, nextBlockId,
                         IF w.op = "createBlock"
                         THEN [pageId |-> p, type |-> w.type,
                               content |-> w.content, order |-> req.order]
                         ELSE [pageId |-> p, type |-> "page",
                               content |-> PageContent(Ref("oid", req.childId), req.childTitle),
                               order |-> req.order])
                  /\ nextBlockId' = nextBlockId + 1
                  /\ req' = [req EXCEPT !.w = "done", !.wStatus = 201]
                  /\ UNCHANGED <<pages, nextPageId>>
             [] OTHER -> FALSE
    /\ UNCHANGED resp
    /\ UNCHANGED browser

\* The next store call of deletePage
deleteStep ==
    /\ req.op = "racing"
    /\ LET d == req.delete
       IN  CASE req.d = "Page.findOne" ->
                  /\ req' = IF OwnsPage(d.user, d.pageId)
                            THEN [req EXCEPT !.d = "collectDescendantPages",
                                             !.parentPageId = pages[d.pageId].parentPageId]
                            ELSE [req EXCEPT !.d = "done", !.dStatus = 404]
                  /\ UNCHANGED <<pages, blocks>>
             [] req.d = "collectDescendantPages" ->
                  /\ req' = [req EXCEPT !.d = "Block.deleteMany",
                                        !.pagesToDelete =
                                            collectDescendantPages(pages, d.pageId, d.user)]
                  /\ UNCHANGED <<pages, blocks>>
             [] req.d = "Block.deleteMany" ->
                  /\ blocks' = Without(blocks,
                         {id \in DOMAIN blocks : blocks[id].pageId \in req.pagesToDelete})
                  /\ req' = [req EXCEPT !.d = "Page.deleteMany"]
                  /\ UNCHANGED pages
             [] req.d = "Page.deleteMany" ->
                  /\ pages' = Without(pages, req.pagesToDelete)
                  /\ req' = IF req.parentPageId # NoPage
                            THEN [req EXCEPT !.d = "parent Block.deleteMany"]
                            ELSE [req EXCEPT !.d = "done", !.dStatus = 200]
                  /\ UNCHANGED blocks
             [] req.d = "parent Block.deleteMany" ->
                  /\ blocks' = Without(blocks,
                         {id \in DOMAIN blocks :
                             ParentRefFilter(blocks[id], req.parentPageId, d.pageId)})
                  /\ req' = [req EXCEPT !.d = "done", !.dStatus = 200]
                  /\ UNCHANGED pages
             [] OTHER -> FALSE
    /\ UNCHANGED <<nextPageId, nextBlockId, resp>>
    /\ UNCHANGED browser

\* Both handlers have returned
raceAnswers ==
    /\ req.op = "racing"
    /\ req.w = "done" /\ req.d = "done"
    /\ resp' = [op |-> "race", status |-> req.wStatus, deleteStatus |-> req.dStatus,
                write |-> req.write, delete |-> req.delete]
    /\ req' = NoReq
    /\ UNCHANGED <<pages, blocks, nextPageId, nextBlockId>>
    /\ UNCHANGED browser

RequestRace ==
    Arrive(CreatePageRequests(RaceUsers, Cardinality(RacePagePool))
           \cup CreatePageBlockRequests(RaceUsers, {NoId}, Cardinality(RacePagePool),
                                        Cardinality(RaceBlockPool))
           \cup RaceRequests(RaceUsers, Cardinality(RacePagePool),
                             Cardinality(RaceBlockPool)))

NextRace ==
    \/ RequestRace
    \/ Reply
    \/ createPage
    \/ createPageBlock
    \/ raceHandlers
    \/ writeStep
    \/ deleteStep
    \/ raceAnswers

SpecRace == Init /\ [][NextRace]_vars

\* C28: in every quiescent state (no request in flight), after any
\* interleaving of the store calls of a block or page-block creation with
\* those of a page deletion, every block's pageId names an existing page and
\* every page's non-null parentPageId names an existing page.
C28_NoOrphanedRows ==
    req = NoReq =>
        /\ \A id \in DOMAIN blocks : blocks[id].pageId \in DOMAIN pages
        /\ \A p \in DOMAIN pages :
               pages[p].parentPageId # NoPage => pages[p].parentPageId \in DOMAIN pages

----------------------------------------------------------------------------
(* The block editor's state: the useBlocks hook of one open page.  A call  *)
(* of the hook runs up to its next await as one step; the request it       *)
(* awaits is served by the route handlers above; its continuation is the   *)
(* next step.  Local edits are event handlers and run between the steps.   *)

HookUser == "u1"
HookPage == 1

\* api.getPage(pageId, 20, null): the window the editor loads
PageSize == 20

\* The page holds one block more than a window when the editor opens
StoredBlocks == PageSize + 1

\* Ids the store hands out in all: the blocks stored at first and one more
HookBlockLimit == StoredBlocks + 1

\* params.append(name, n): the number printed
ParamOf(n) == NumStr[n + 1]

\* api.getPage(pageId, limit, cursor): cursor is appended unless it is null
GetPage(limitParam, cursor) ==
    [op |-> "read", user |-> HookUser, pageId |-> HookPage, limit |-> limitParam,
     cursor |-> IF cursor = <<>> THEN NullParam ELSE ParamOf(cursor[1])]

\* JSON.stringify({ blocks }) as the save route reads each entry: _id (a
\* temp-... id is not a valid ObjectId), type, content, order
Body(bs) ==
    [i \in 1..Len(bs) |-> [id |-> bs[i].id, type |-> bs[i].type,
                           content |-> bs[i].content, order |-> bs[i].order]]

\* api.savePageContent(pageId, blocks)
SavePageContent(bs) ==
    [op |-> "save", user |-> HookUser, pageId |-> HookPage, blocks |-> Body(bs)]

\* data.nextCursor || null: 0 is falsy
OrNull(cursor) == IF cursor # <<>> /\ cursor[1] = 0 THEN <<>> ELSE cursor

server == <<pages, blocks, nextPageId, nextBlockId>>
textEditor == <<heap, localMarks, argMarks, localText>>

\* loadBlocks up to `await api.getPage(pageId, 20, null)`
loadBlocks ==
    /\ awaiting = NotAwaiting
    /\ req = NoReq /\ resp = NoResp
    /\ req' = GetPage(ParamOf(PageSize), <<>>)
    /\ awaiting' = [at |-> "loadBlocks"]
    /\ hook' = [hook EXCEPT !.error = FALSE]
    /\ UNCHANGED <<server, resp, textEditor>>

\* loadBlocks after the await: the four setters, or the catch
loadBlocksThen ==
    /\ awaiting.at = "loadBlocks"
    /\ req = NoReq /\ resp.op = "read"
    /\ hook' = IF resp.status = 200
               THEN [blocks |-> resp.blocks, isDirty |-> FALSE,
                     hasMore |-> resp.hasMore, nextCursor |-> OrNull(resp.nextCursor),
                     error |-> FALSE]
               ELSE [hook EXCEPT !.error = TRUE]
    /\ resp' = NoResp
    /\ awaiting' = NotAwaiting
    /\ UNCHANGED <<server, req, textEditor>>

\* fetchAPI: fetch rejects, or the answer is not ok; the awaited call throws
fetchRejects ==
    /\ awaiting # NotAwaiting
    /\ req.op \in {"read", "save"}
    /\ req' = NoReq
    /\ resp' = [op |-> req.op, status |-> 0]
    /\ UNCHANGED <<server, textEditor, hook, awaiting>>

\* The blocks are shown (not the loading placeholder, not the error box)
\* and there is one
Editable == awaiting.at # "loadBlocks" /\ ~hook.error /\ hook.blocks # <<>>

\* updateBlockContent(blockId, content) on the first block shown
updateBlockContent ==
    /\ Editable
    /\ \E t \in Texts :
          LET blockId == hook.blocks[1].id
          IN  hook' = [hook EXCEPT
                  !.blocks = [i \in 1..Len(@) |->
                                 IF @[i].id = blockId
                                 THEN [@[i] EXCEPT !.content = TextContent(t)]
                                 ELSE @[i]],
                  !.isDirty = TRUE]
    /\ UNCHANGED <<server, req, resp, textEditor, awaiting>>

\* removeBlock(blockId) of the first block shown
removeBlock ==
    /\ Editable
    /\ Len(hook.blocks) >= PageSize
    /\ LET blockId == hook.blocks[1].id
           kept(b) == b.id # blockId
       IN  hook' = [hook EXCEPT !.blocks = SelectSeq(@, kept), !.isDirty = TRUE]
    /\ UNCHANGED <<server, req, resp, textEditor, awaiting>>

\* addBlock(afterBlockId) behind the first block shown; the new block has a
\* temp-... id, and all orders are re-indexed
addBlock ==
    /\ Editable
    /\ nextBlockId <= HookBlockLimit
    /\ \A i \in 1..Len(hook.blocks) : hook.blocks[i].id # NoId
    /\ LET newBlock == [id |-> NoId, pageId |-> HookPage, type |-> "paragraph",
                        content |-> TextContent(""), order |-> 0]
           newBlocks == <<hook.blocks[1], newBlock>> \o Tail(hook.blocks)
       IN  hook' = [hook EXCEPT
               !.blocks = [i \in 1..Len(newBlocks) |-> [newBlocks[i] EXCEPT !.order = i - 1]],
               !.isDirty = TRUE]
    /\ UNCHANGED <<server, req, resp, textEditor, awaiting>>

\* saveAllBlocks up to its first await that leaves the tab: the fetch of
\* fetchRemainingBlocks when hasMore and nextCursor are set, the PUT otherwise
saveAllBlocks ==
    /\ awaiting = NotAwaiting
    /\ req = NoReq /\ resp = NoResp
    /\ hook.isDirty
    /\ IF hook.hasMore /\ hook.nextCursor # <<>>
       THEN /\ req' = GetPage("all", hook.nextCursor)
            /\ awaiting' = [at |-> "fetchRemainingBlocks", currentBlocks |-> hook.blocks]
       ELSE /\ req' = SavePageContent(hook.blocks)
            /\ awaiting' = [at |-> "savePageContent", fullBlocks |-> hook.blocks]
    /\ hook' = [hook EXCEPT !.error = FALSE]
    /\ UNCHANGED <<server, resp, textEditor>>

\* fetchRemainingBlocks after its await (the full list and three setters, or
\* the catch returning currentBlocks), then saveAllBlocks up to the PUT
fetchRemainingBlocksThen ==
    /\ awaiting.at = "fetchRemainingBlocks"
    /\ req = NoReq /\ resp.op = "read"
    /\ LET currentBlocks == awaiting.currentBlocks
           existingIds == {currentBlocks[i].id : i \in 1..Len(currentBlocks)}
           isNew(b) == b.id \notin existingIds
           fullList == IF resp.status = 200
                       THEN currentBlocks \o SelectSeq(resp.blocks, isNew)
                       ELSE currentBlocks
       IN  /\ hook' = IF resp.status = 200
                      THEN [hook EXCEPT !.blocks = fullList, !.hasMore = FALSE,
                                        !.nextCursor = <<>>]
                      ELSE hook
           /\ req' = SavePageContent(fullList)
           /\ awaiting' = [at |-> "savePageContent", fullBlocks |-> fullList]
    /\ resp' = NoResp
    /\ UNCHANGED <<server, textEditor>>

\* saveAllBlocks after `await api.savePageContent`: setBlocks(updatedBlocks)
\* and setIsDirty(false), or the catch
saveAllBlocksThen ==
    /\ awaiting.at = "savePageContent"
    /\ req = NoReq /\ resp.op = "save"
    /\ hook' = IF resp.status = 200
               THEN [hook EXCEPT !.blocks = resp.blocks, !.isDirty = FALSE]
               ELSE [hook EXCEPT !.error = TRUE]
    /\ resp' = NoResp
    /\ awaiting' = NotAwaiting
    /\ UNCHANGED <<server, req, textEditor>>

\* The owner's page with StoredBlocks paragraphs at orders 0, 1, 2, ...; the
\* editor has just been mounted
InitHook ==
    /\ pages = <<NewPage(HookUser, NoPage, "Untitled")>>
    /\ blocks = [id \in 1..StoredBlocks |->
                    [pageId |-> HookPage, type |-> "paragraph",
                     content |-> TextContent("a"), order |-> id - 1]]
    /\ nextPageId = 2
    /\ nextBlockId = StoredBlocks + 1
    /\ req = NoReq
    /\ resp = NoResp
    /\ BrowserIdle

NextHook ==
    \/ loadBlocks
    \/ loadBlocksThen
    \/ fetchRejects
    \/ getPage
    \/ syncPageBlocks
    \/ updateBlockContent
    \/ removeBlock
    \/ addBlock
    \/ saveAllBlocks
    \/ fetchRemainingBlocksThen
    \/ saveAllBlocksThen

SpecHook == InitHook /\ [][NextHook]_vars

\* The editor without removals: every stored block is one the user kept
NextSave ==
    \/ loadBlocks
    \/ loadBlocksThen
    \/ fetchRejects
    \/ getPage
    \/ syncPageBlocks
    \/ updateBlockContent
    \/ addBlock
    \/ saveAllBlocks
    \/ fetchRemainingBlocksThen
    \/ saveAllBlocksThen

SpecSave == InitHook /\ [][NextSave]_vars

\* The save request leaves the tab in this step
SaveSent == req.op # "save" /\ req'.op = "save"

\* C27: whenever saveAllBlocks sends its snapshot while only part of the
\* page had been loaded (hasMore), the snapshot names every block stored for
\* the page (the user has removed none), also when the fetch of the
\* remaining blocks failed; so the save deletes no block that was not loaded.
C27_SnapshotComplete ==
    [][(SaveSent /\ hook.hasMore) =>
          \A id \in BlocksOf(blocks, HookPage) :
              \E i \in 1..Len(req'.blocks) : req'.blocks[i].id = id]_vars

\* What the user sees of a list: each block's id, type and content
Edits(bs) ==
    [i \in 1..Len(bs) |-> [id |-> bs[i].id, type |-> bs[i].type, content |-> bs[i].content]]

\* C30: when a save resolves and the local list differs from the snapshot
\* that was sent (an edit was made while the save was in flight), then
\* either the local list still holds the edit and isDirty is true, or the
\* blocks the save persisted are the local list.
C30_NoLostEdit ==
    [][(/\ awaiting.at = "savePageContent"
        /\ awaiting'.at = "idle"
        /\ Edits(hook.blocks) # Edits(awaiting.fullBlocks)) =>
          \/ (hook'.blocks = hook.blocks /\ hook'.isDirty)
          \/ resp.status = 200 /\ Edits(resp.blocks) = Edits(hook.blocks)]_vars

====
